---------------------------- MODULE Spec2Model ----------------------------
(***************************************************************************)
(* A model of the banner grabber: the scheduler (Engine::run) with its     *)
(* token-bucket rate limiter, concurrency semaphore, spawned target tasks  *)
(* and output sink; the bounded banner reader; and the per-target          *)
(* selection of a protocol handler.                                        *)
(*                                                                         *)
(* Time is discrete.  One second is TicksPerSecond ticks; every duration   *)
(* of the program is a number of ticks.                                    *)
(***************************************************************************)
EXTENDS Integers, Sequences, FiniteSets, TLC

(***************************************************************************)
(* Bounds of the model.                                                    *)
(***************************************************************************)
NumTargets == 4
MaxStream == 2
MaxRate == 2
MaxConcurrency == 2
MaxTime == 3
TicksPerSecond == 2
MaxJitter == 1
MaxBytes == 5
MaxSessionBytes == 3
MaxParts == 3

VARIABLES
    cfg,            \* Config: rate, concurrency (model.rs Config)
    stream,         \* targets the input stream has yet to yield
    now,            \* the monotonic clock, in ticks
    pc,             \* where Engine::run stands
    wakeAt,         \* the instant the sleep run() is in ends
    pulled,         \* targets pulled from the input stream so far
    permits,        \* RateLimiter.permits: available tokens
    last_refill,    \* RateLimiter.last_refill
    sem,            \* Engine.sem: available concurrency permits
    tasks,          \* the spawned target tasks
    emitted,        \* per target, the outcomes the sink accepted for it
    dispatchedAt,   \* the instants, within the last second, at which
                    \* limiter.acquire() completed
    tx,             \* OutputInner.tx: "Some" until shutdown() takes it
    result,         \* what run() returned
    rd,             \* one BannerReader::read call
    pl,             \* one target in the pipeline processor
    ss,             \* one ClientSession
    hp,             \* one HttpProbe::execute call
    lm,             \* a RateLimiter under a burst of acquires, in ms
    cf,             \* Cli::into_config and the targets of the Config
    oc,             \* one OutputChannel, its emitters and its writer
    ot,             \* one target task under the overall timeout
    dl,             \* one ClientSession's reads against the deadline
    hd              \* one protocol handler's dialogue with its server

engineVars == <<cfg, stream, now, pc, wakeAt, pulled, permits, last_refill, sem, tasks,
                emitted, dispatchedAt, tx, result>>
vars == <<cfg, stream, now, pc, wakeAt, pulled, permits, last_refill, sem, tasks,
          emitted, dispatchedAt, tx, result, rd, pl, ss, hp, lm, cf, oc, ot, dl,
          hd>>

\* What the actions of the scheduler leave alone.
notEngine == <<rd, pl, ss, hp, lm, cf, oc, ot, dl, hd>>

Targets == 1..NumTargets

(***************************************************************************)
(* Values that stand for "not in use" in a specification that does not     *)
(* exercise a component.                                                   *)
(***************************************************************************)
IdleReader == [st |-> "idle"]
IdlePipeline == [st |-> "idle"]
IdleSession == [st |-> "idle"]
IdleHttp == [st |-> "idle"]
Unused == [st |-> "idle"]

-----------------------------------------------------------------------------
(***************************************************************************)
(* The rate limiter (engine/rate.rs).                                      *)
(***************************************************************************)

\* with_jitter(fill_rate, true): the refill interval is one second.
refill_interval == TicksPerSecond

\* refill() of a limiter whose refill_interval is `interval`: when a whole
\* interval has passed since last_refill, top the permits up to fill_rate
\* and move last_refill to now.
refill_within_every_turn(p, last, t, fill_rate, interval) ==
    [permits |-> p + (IF fill_rate >= p THEN fill_rate - p ELSE 0), last |-> t]
refill_within(p, last, t, fill_rate, interval) ==
    IF t - last >= interval
    THEN [permits |-> p + (IF fill_rate >= p THEN fill_rate - p ELSE 0), last |-> t]
    ELSE [permits |-> p, last |-> last]

\* refill() of the scheduler's limiter.
refill(p, last, t, fill_rate) == refill_within(p, last, t, fill_rate, refill_interval)

\* permits.try_acquire_owned() followed by permit.forget(): with a permit
\* available it is taken for good, else the attempt fails.
try_acquire_without_token(p) ==
    [ok |-> TRUE, permits |-> IF p > 0 THEN p - 1 ELSE 0]
try_acquire(p) ==
    IF p > 0 THEN [ok |-> TRUE, permits |-> p - 1]
             ELSE [ok |-> FALSE, permits |-> p]

\* time_until_refill(): refill_interval.saturating_sub(elapsed)
time_until_refill_within(last, t, interval) ==
    IF interval >= t - last THEN interval - (t - last) ELSE 0
time_until_refill(last, t) == time_until_refill_within(last, t, refill_interval)

\* jitter_delay(): a random delay (5 to 19 ms) when jitter is enabled.
jitter_delay == 0..MaxJitter

\* The Config the scheduler runs under (the timeouts of tests/pipeline.rs:
\* connect 500 ms, read 500 ms, overall 1000 ms).
connect_timeout == TicksPerSecond \div 2
read_timeout == TicksPerSecond \div 2
overall_timeout == TicksPerSecond

-----------------------------------------------------------------------------
(***************************************************************************)
(* The output sink (output.rs).                                            *)
(***************************************************************************)

\* emit_error(target, error): the outcome has status Error and diagnostics
\* {stage: "pipeline", message: error}.
emit_error_outcome(error) ==
    [status |-> "Error", stage |-> "pipeline", message |-> error]

\* emit(outcome): send on tx when the sender is still there, else fail.
emit(t, outcome) ==
    IF tx = "Some"
    THEN [emitted EXCEPT ![t] = Append(@, outcome)]
    ELSE emitted

-----------------------------------------------------------------------------
(***************************************************************************)
(* The scheduler (engine/mod.rs).                                          *)
(***************************************************************************)

NoTask == [st |-> "none", res |-> "none", start |-> 0, since |-> 0]

\* empty_outcome(target, status, tcp): no banner, no diagnostics.
empty_outcome(status) == [status |-> status, stage |-> "None", message |-> "None"]

\* The outcome process_target builds when connect and read succeeded.
open_outcome == [status |-> "Open", stage |-> "None", message |-> "None"]

Processing(t) == tasks[t].st \in {"connect", "read", "read2"}
InFlight == {t \in Targets : Processing(t)}

\* A step that only computes takes no time at the scale of a tick, and a
\* timer fires in the tick it is due.
Urgent ==
    \/ pc = "acquire"
    \/ pc = "drain" /\ (InFlight = {} \/ \E t \in Targets : tasks[t].st = "finished")
    \/ pc = "sem" /\ sem > 0
    \/ pc \in {"sleep", "jitter"} /\ now >= wakeAt
    \/ \E t \in Targets : Processing(t) /\ now >= tasks[t].start + overall_timeout
    \/ \E t \in Targets :
          tasks[t].st = "connect" /\ now >= tasks[t].since + connect_timeout
    \/ \E t \in Targets :
          tasks[t].st \in {"read", "read2"} /\ now >= tasks[t].since + read_timeout

\* Semaphore::acquire_owned(): completes only while a permit is available.
permit_available_always(s) == TRUE
permit_available(s) == s > 0

\* What the drain loop does with the result of a joined task:
\* `while tasks.next().await.is_some() {}` discards it and goes on.
after_join_propagate(res) ==
    IF res \in {"Err", "Elapsed", "Panic"}
    THEN [pc |-> "returned", result |-> "Err"]
    ELSE [pc |-> "drain", result |-> "none"]
after_join(res) == [pc |-> "drain", result |-> "none"]

\* Engine::new, and the stream of stream_targets(cfg) holding n targets.
EngineInit(n) ==
    /\ stream = n
    /\ now = 0
    /\ pc = "next"
    /\ wakeAt = 0
    /\ pulled = 0
    /\ permits = cfg.rate
    /\ last_refill = 0
    /\ sem = cfg.concurrency
    /\ tasks = [t \in Targets |-> NoTask]
    /\ emitted = [t \in Targets |-> <<>>]
    /\ dispatchedAt = <<>>
    /\ tx = "Some"
    /\ result = "none"

\* The clock advances; dispatches older than one second leave the window.
Tick ==
    /\ now < MaxTime
    /\ ~Urgent
    /\ now' = now + 1
    /\ dispatchedAt' = SelectSeq(dispatchedAt, LAMBDA d : d > now' - TicksPerSecond)
    /\ UNCHANGED <<cfg, stream, pc, wakeAt, pulled, permits, last_refill, sem,
                   tasks, emitted, tx, result, notEngine>>

\* stream.next() yields a target.
Pull ==
    /\ pc = "next"
    /\ stream > 0
    /\ stream' = stream - 1
    /\ pulled' = pulled + 1
    /\ pc' = "acquire"
    /\ UNCHANGED <<cfg, now, wakeAt, permits, last_refill, sem, tasks,
                   emitted, dispatchedAt, tx, result, notEngine>>

\* stream.next() yields None: the input is exhausted.
InputClosed ==
    /\ pc = "next"
    /\ stream = 0
    /\ pc' = "drain"
    /\ UNCHANGED <<cfg, stream, now, wakeAt, pulled, permits, last_refill, sem,
                   tasks, emitted, dispatchedAt, tx, result, notEngine>>

\* One turn of the loop of RateLimiter::acquire(): refill, then either take
\* a permit and return, or sleep until the next refill plus jitter.
LimiterAcquire ==
    /\ pc = "acquire"
    /\ LET r == refill(permits, last_refill, now, cfg.rate)
           a == try_acquire(r.permits) IN
        /\ last_refill' = r.last
        /\ permits' = a.permits
        /\ IF a.ok
           THEN /\ pc' = "sem"
                /\ dispatchedAt' = Append(dispatchedAt, now)
                /\ UNCHANGED wakeAt
           ELSE /\ pc' = "sleep"
                /\ \E j \in jitter_delay :
                       wakeAt' = now + time_until_refill(r.last, now) + j
                /\ UNCHANGED dispatchedAt
    /\ UNCHANGED <<cfg, stream, now, pulled, sem, tasks, emitted, tx, result,
                   notEngine>>

\* sleep(wait_for) in acquire() ends; the loop turns again.
LimiterWake ==
    /\ pc = "sleep"
    /\ now >= wakeAt
    /\ pc' = "acquire"
    /\ UNCHANGED <<cfg, stream, now, wakeAt, pulled, permits, last_refill, sem,
                   tasks, emitted, dispatchedAt, tx, result, notEngine>>

\* acquire_owned() obtains a concurrency permit and the task is spawned
\* owning it; run() goes on to sleep_jitter().
Spawn ==
    /\ pc = "sem"
    /\ permit_available(sem)
    /\ sem' = sem - 1
    /\ tasks' = [tasks EXCEPT ![pulled] =
                    [st |-> "connect", res |-> "none", start |-> now, since |-> now]]
    /\ pc' = "jitter"
    /\ \E j \in jitter_delay : wakeAt' = now + j
    /\ UNCHANGED <<cfg, stream, now, pulled, permits, last_refill, emitted,
                   dispatchedAt, tx, result, notEngine>>

\* limiter.sleep_jitter() ends; run() asks the stream for the next target.
JitterWake ==
    /\ pc = "jitter"
    /\ now >= wakeAt
    /\ pc' = "next"
    /\ UNCHANGED <<cfg, stream, now, wakeAt, pulled, permits, last_refill, sem,
                   tasks, emitted, dispatchedAt, tx, result, notEngine>>

\* `let _permit = permit;`: the permit the task owns goes back to the
\* semaphore when the task's future is dropped, at its end or on unwind.
drop_permit_leaked(s) == s
drop_permit(s) == s + 1

\* The rest of the task once timeout(overall_timeout, process_target) is
\* ready with `res`: the match hands an outcome to the sink (the outcome of
\* process_target, or emit_error's), and the task ends, dropping its permit.
Finish(t, res, outcome) ==
    /\ tasks' = [tasks EXCEPT ![t] =
                    [st |-> "finished", res |-> res, start |-> 0, since |-> 0]]
    /\ emitted' = emit(t, outcome)
    /\ sem' = drop_permit(sem)
    /\ UNCHANGED <<cfg, stream, now, pc, wakeAt, pulled, permits, last_refill,
                   dispatchedAt, tx, result, notEngine>>

\* process_target goes on to its next await, entered now.
Step(t, st) ==
    /\ tasks' = [tasks EXCEPT ![t].st = st, ![t].since = now]
    /\ UNCHANGED <<cfg, stream, now, pc, wakeAt, pulled, permits, last_refill, sem,
                   emitted, dispatchedAt, tx, result, notEngine>>

\* process_target: TcpStream::connect succeeds within connect_timeout.
TaskConnectOk(t) ==
    /\ tasks[t].st = "connect"
    /\ Step(t, "read")

\* process_target: TcpStream::connect fails; process_target returns Err,
\* the task calls emit_error(target, err).
TaskConnectErr(t) ==
    /\ tasks[t].st = "connect"
    /\ Finish(t, "Err", emit_error_outcome("connect error"))

\* process_target: timeout(connect_timeout, ...) elapses; process_target
\* returns a Timeout outcome.
TaskConnectTimeout(t) ==
    /\ tasks[t].st = "connect"
    /\ now >= tasks[t].since + connect_timeout
    /\ Finish(t, "Ok", empty_outcome("Timeout"))

\* process_target: a banner read brings bytes; the outcome is Open.
TaskReadData(t) ==
    /\ tasks[t].st \in {"read", "read2"}
    /\ Finish(t, "Ok", open_outcome)

\* process_target: a banner read brings no byte; the first such read is
\* followed by a second one.
TaskReadEmpty(t) ==
    /\ tasks[t].st \in {"read", "read2"}
    /\ IF tasks[t].st = "read"
       THEN Step(t, "read2")
       ELSE Finish(t, "Ok", open_outcome)

\* process_target: a banner read fails; process_target returns Err.
TaskReadErr(t) ==
    /\ tasks[t].st \in {"read", "read2"}
    /\ Finish(t, "Err", emit_error_outcome("read error"))

\* process_target: timeout(read_timeout, reader.read) elapses;
\* process_target returns a Timeout outcome.
TaskReadTimeout(t) ==
    /\ tasks[t].st \in {"read", "read2"}
    /\ now >= tasks[t].since + read_timeout
    /\ Finish(t, "Ok", empty_outcome("Timeout"))

\* timeout(cfg.overall_timeout, ...) elapses while process_target is
\* pending: the task calls emit_error(target, "overall timeout").
TaskElapsedNever(t) ==
    /\ FALSE
    /\ UNCHANGED vars
TaskElapsed(t) ==
    /\ Processing(t)
    /\ now >= tasks[t].start + overall_timeout
    /\ Finish(t, "Elapsed", emit_error_outcome("overall timeout"))

\* process_target panics: the task unwinds, dropping its permit; its
\* JoinHandle will yield a JoinError.
TaskPanic(t) ==
    /\ Processing(t)
    /\ tasks' = [tasks EXCEPT ![t] =
                    [st |-> "finished", res |-> "Panic", start |-> 0, since |-> 0]]
    /\ sem' = drop_permit(sem)
    /\ UNCHANGED <<cfg, stream, now, pc, wakeAt, pulled, permits, last_refill,
                   emitted, dispatchedAt, tx, result, notEngine>>

\* The drain loop: tasks.next() yields a finished task.
Join(t) ==
    /\ pc = "drain"
    /\ tasks[t].st = "finished"
    /\ tasks' = [tasks EXCEPT ![t].st = "joined"]
    /\ pc' = after_join(tasks[t].res).pc
    /\ result' = after_join(tasks[t].res).result
    /\ UNCHANGED <<cfg, stream, now, wakeAt, pulled, permits, last_refill, sem,
                   emitted, dispatchedAt, tx, notEngine>>

\* tasks.next() yields None: every task was joined; run() returns Ok(()).
Return ==
    /\ pc = "drain"
    /\ \A t \in Targets : tasks[t].st \in {"none", "joined"}
    /\ pc' = "returned"
    /\ result' = "Ok"
    /\ UNCHANGED <<cfg, stream, now, wakeAt, pulled, permits, last_refill, sem,
                   tasks, emitted, dispatchedAt, tx, notEngine>>

RunStep ==
    \/ Tick
    \/ Pull
    \/ InputClosed
    \/ LimiterAcquire
    \/ LimiterWake
    \/ Spawn
    \/ JitterWake
    \/ \E t \in Targets : Join(t)
    \/ Return

\* A run over a stream of up to MaxStream targets, servers of any behaviour.
Init ==
    /\ cfg \in [rate : 1..MaxRate, concurrency : 1..MaxConcurrency]
    /\ \E n \in 1..MaxStream : EngineInit(n)
    /\ lm = Unused /\ cf = Unused /\ oc = Unused /\ ot = Unused /\ dl = Unused
    /\ hd = Unused
    /\ rd = IdleReader
    /\ pl = IdlePipeline
    /\ ss = IdleSession
    /\ hp = IdleHttp

Next ==
    \/ RunStep
    \/ \E t \in Targets : TaskConnectOk(t)
    \/ \E t \in Targets : TaskConnectErr(t)
    \/ \E t \in Targets : TaskConnectTimeout(t)
    \/ \E t \in Targets : TaskReadData(t)
    \/ \E t \in Targets : TaskReadEmpty(t)
    \/ \E t \in Targets : TaskReadErr(t)
    \/ \E t \in Targets : TaskReadTimeout(t)
    \/ \E t \in Targets : TaskElapsed(t)
    \/ \E t \in Targets : TaskPanic(t)

Spec == Init /\ [][Next]_vars

\* Instants are kept relative to the horizon MaxTime: once the clock has
\* reached it, a further tick leaves `now` where it is and moves every
\* recorded instant one tick into the past instead (an instant more than
\* MaxTime ticks old stays MaxTime ticks old, which every comparison of
\* the scheduler treats alike, the timeouts and the refill interval being
\* shorter than MaxTime).
rebase(instant) == IF instant > 0 THEN instant - 1 ELSE 0

TickRebased ==
    /\ now = MaxTime
    /\ ~Urgent
    /\ wakeAt' = rebase(wakeAt)
    /\ last_refill' = rebase(last_refill)
    /\ tasks' = [t \in Targets |->
                    [tasks[t] EXCEPT !.start = rebase(@), !.since = rebase(@)]]
    /\ dispatchedAt' = SelectSeq([i \in 1..Len(dispatchedAt) |-> rebase(dispatchedAt[i])],
                                 LAMBDA d : d > now - TicksPerSecond)
    /\ UNCHANGED <<cfg, stream, now, pc, pulled, permits, sem, emitted, tx,
                   result, notEngine>>

NextFair ==
    \/ Next
    \/ TickRebased

\* The scheduling run() executes under: time passes, the finite stream
\* yields its next item or its end, run()'s own steps are taken when
\* they can be, every timer (the limiter's sleeps, the connect, read and
\* overall timeouts) fires when it is due, and the join of a finished task
\* completes.  Nothing obliges a server to answer, and no task has to
\* panic.
SpecFair ==
    /\ Init
    /\ [][NextFair]_vars
    /\ WF_vars(Tick)
    /\ WF_vars(TickRebased)
    /\ WF_vars(Pull)
    /\ WF_vars(InputClosed)
    /\ WF_vars(LimiterAcquire)
    /\ WF_vars(LimiterWake)
    /\ WF_vars(Spawn)
    /\ WF_vars(JitterWake)
    /\ WF_vars(Return)
    /\ \A t \in Targets : WF_vars(Join(t))
    /\ \A t \in Targets : WF_vars(TaskConnectTimeout(t))
    /\ \A t \in Targets : WF_vars(TaskReadTimeout(t))
    /\ \A t \in Targets : WF_vars(TaskElapsed(t))

\* A run over a stream of NumTargets targets with a permit for each, against
\* servers that accept the connection and never write.
InitRate ==
    /\ cfg = [rate |-> MaxRate, concurrency |-> NumTargets]
    /\ EngineInit(NumTargets)
    /\ lm = Unused /\ cf = Unused /\ oc = Unused /\ ot = Unused /\ dl = Unused
    /\ hd = Unused
    /\ rd = IdleReader
    /\ pl = IdlePipeline
    /\ ss = IdleSession
    /\ hp = IdleHttp

NextRate ==
    \/ RunStep
    \/ \E t \in Targets : TaskConnectOk(t)
    \/ \E t \in Targets : TaskReadTimeout(t)
    \/ \E t \in Targets : TaskElapsed(t)

SpecRate == InitRate /\ [][NextRate]_vars

-----------------------------------------------------------------------------
(***************************************************************************)
(* Properties of the scheduler.                                            *)
(***************************************************************************)

\* C1: when run() has returned, every target pulled from the stream has
\* exactly one outcome in the sink, so the outcomes number as many as the
\* targets pulled.
C1_OneOutcomePerTarget ==
    pc = "returned" => \A t \in 1..pulled : Len(emitted[t]) = 1

\* C2: at every instant the tasks in flight (spawned, still processing
\* their target) number at most cfg.concurrency.
C2_InFlightBounded == Cardinality(InFlight) <= cfg.concurrency

\* C2 witness: as many tasks in flight as permits exist while run() waits
\* in acquire_owned() with a further target in hand.
C2_Saturated ==
    /\ pc = "sem"
    /\ Cardinality(InFlight) = cfg.concurrency
    /\ tasks[pulled].st = "none"

\* C3: the targets dispatched past the rate limiter within any one-second
\* window number at most cfg.rate + 1.
C3_WindowBounded == Len(dispatchedAt) <= cfg.rate + 1

\* C4: run() never ends with an error; it returns only once the input is
\* exhausted and every target pulled has been spawned and joined, and then
\* it returns success, whatever the tasks' results.
C4_RunSurvivesFailures ==
    /\ result # "Err"
    /\ pc = "returned" =>
          /\ result = "Ok"
          /\ stream = 0
          /\ \A t \in 1..pulled : tasks[t].st = "joined"

\* C4 witness: run() has returned after a first target whose processing
\* failed and a later target that was still pulled and processed.
C4_ReturnedAfterFailure ==
    /\ pc = "returned"
    /\ pulled >= 2
    /\ tasks[1].res = "Err"
    /\ tasks[pulled].res = "Ok"

\* C6: the outcome emitted for a target whose overall timeout elapsed has
\* status Timeout and diagnostic stage "overall".
C6_OverallTimeoutOutcome ==
    \A t \in Targets :
        tasks[t].res = "Elapsed" =>
            \A i \in 1..Len(emitted[t]) :
                /\ emitted[t][i].status = "Timeout"
                /\ emitted[t][i].stage = "overall"

\* C7: once the scheduler has joined a task that panicked, an error
\* outcome for its target is in the sink.
C7_PanicBecomesError ==
    \A t \in Targets :
        (tasks[t].st = "joined" /\ tasks[t].res = "Panic") =>
            \E i \in 1..Len(emitted[t]) : emitted[t][i].status = "Error"

\* C8: run() does not return before the sink is shut down (its sender
\* taken).
C8_ShutdownBeforeReturn == pc = "returned" => tx = "None"

\* C20: acquire() never completes while no token is available: an acquire()
\* completes only when a token is there, left over or brought by a refill
\* that is due, and then takes exactly one; a suspended acquire() neither
\* completes nor takes a token before it wakes and finds one.
C20_AcquireNeedsToken ==
    [][/\ (pc = "acquire" /\ pc' = "sem") =>
            LET available == IF now - last_refill >= refill_interval
                             THEN cfg.rate ELSE permits
            IN  available > 0 /\ permits' = available - 1
       /\ pc = "sleep" => (pc' \in {"sleep", "acquire"} /\ permits' = permits)
       /\ (pc = "sleep" /\ pc' = "acquire") => now >= wakeAt]_vars

\* C20: with one token per second and two targets, the second acquire()
\* slept until the refill and then completed, taking the refilled token.
C20_CompletedAfterRefill ==
    /\ cfg.rate = 1
    /\ pulled = 2
    /\ pc = "sem"
    /\ wakeAt >= refill_interval
    /\ last_refill >= wakeAt
    /\ permits = 0

\* C18: when the TCP connect to a target fails, the target's outcome has
\* status Error and a diagnostic with stage "connect" carrying the error
\* message.
C18_ConnectFailureOutcome ==
    \A t \in Targets :
        \A i \in 1..Len(emitted[t]) :
            emitted[t][i].message = "connect error" =>
                /\ emitted[t][i].status = "Error"
                /\ emitted[t][i].stage = "connect"

-----------------------------------------------------------------------------
(***************************************************************************)
(* The banner reader (engine/reader.rs).                                   *)
(***************************************************************************)

CR == "CR"
LF == "LF"
Byte == {CR, LF, "x"}

\* The byte strings of length lo..hi.
ByteStrings(lo, hi) == UNION {[1..n -> Byte] : n \in lo..hi}

\* The extra_delimiter arguments tried: None, Some(b""), and some non-empty
\* delimiters.
Delimiters == {"None", <<>>, <<LF>>, <<"x", LF>>}

\* buf.windows(Len(w)).position(|window| window == w), counted from 1;
\* 0 stands for None.
position(buf, w) ==
    LET hits == {i \in 1..(Len(buf) - Len(w) + 1) :
                    SubSeq(buf, i, i + Len(w) - 1) = w}
    IN IF hits = {} THEN 0 ELSE CHOOSE i \in hits : \A j \in hits : i <= j

\* find_delimiter, recognising a bare line feed as well.
find_delimiter_newline(buf, extra) ==
    IF position(buf, <<CR, LF, CR, LF>>) # 0
    THEN position(buf, <<CR, LF, CR, LF>>) - 1 + Len(<<CR, LF, CR, LF>>)
    ELSE IF position(buf, <<LF>>) # 0
    THEN position(buf, <<LF>>)
    ELSE IF extra = "None" THEN 0
    ELSE IF extra = <<>> THEN 0
    ELSE IF position(buf, extra) # 0
    THEN position(buf, extra) - 1 + Len(extra)
    ELSE 0

\* find_delimiter(buf, extra): the offset just past the first delimiter
\* found; 0 stands for None.
find_delimiter(buf, extra) ==
    IF position(buf, <<CR, LF, CR, LF>>) # 0
    THEN position(buf, <<CR, LF, CR, LF>>) - 1 + Len(<<CR, LF, CR, LF>>)
    ELSE IF extra = "None" THEN 0
    ELSE IF extra = <<>> THEN 0
    ELSE IF position(buf, extra) # 0
    THEN position(buf, extra) - 1 + Len(extra)
    ELSE 0

\* The room stream.read() is given, &mut buf[total..], ignoring `total`.
read_capacity_whole(max_bytes, total) == max_bytes

\* The room stream.read() is given: &mut buf[total..] of a buffer of
\* max_bytes bytes.
read_capacity(max_bytes, total) == max_bytes - total

\* BannerReader::new(max_bytes, idle_timeout) and the entry of
\* read(stream, extra) on a stream whose peer will send `stream`: nothing
\* read, reason ConnectionClosed.
ReaderInit(max_bytes, extra, peer) ==
    [st |-> "reading", max_bytes |-> max_bytes, extra |-> extra,
     stream |-> peer, buf |-> <<>>, total |-> 0,
     reason |-> "ConnectionClosed", last |-> "none",
     bytes |-> <<>>, truncated |-> FALSE]

\* buf.truncate(total), cutting just past the delimiter instead.
truncate_at_delimiter(buf, total, extra) ==
    IF find_delimiter(buf, extra) # 0
    THEN SubSeq(buf, 1, find_delimiter(buf, extra))
    ELSE SubSeq(buf, 1, total)

\* buf.truncate(total): the bytes read() returns.
truncate(buf, total, extra) == SubSeq(buf, 1, total)

\* Ok(Err(err)) => return Err(err.into()), taken for the end of the stream.
read_failed_as_closed(r) ==
    [r EXCEPT !.st = "done", !.bytes = truncate(r.buf, r.total, r.extra),
              !.truncated = (r.total >= r.max_bytes), !.last = "Err"]

\* Ok(Err(err)) => return Err(err.into()).
read_failed(r) == [r EXCEPT !.st = "failed", !.last = "Err"]

\* read() leaving its loop with reason Delimiter whenever the bytes hold a
\* delimiter, the size limit reached or not.
ReadReturnDelimiterFirst(buf, reason, event) ==
    rd' = [rd EXCEPT !.st = "done", !.buf = buf, !.total = Len(buf),
                     !.reason = IF find_delimiter(buf, rd.extra) # 0
                                THEN "Delimiter" ELSE reason,
                     !.last = event,
                     !.bytes = truncate(buf, Len(buf), rd.extra),
                     !.truncated = (Len(buf) >= rd.max_bytes)]

\* read() leaves its loop: the buffer is truncated to `total` bytes and
\* returned with the reason and the truncated flag.
ReadReturn(buf, reason, event) ==
    rd' = [rd EXCEPT !.st = "done", !.buf = buf, !.total = Len(buf),
                     !.reason = reason, !.last = event,
                     !.bytes = truncate(buf, Len(buf), rd.extra),
                     !.truncated = (Len(buf) >= rd.max_bytes)]

\* Ok(Ok(n)), n > 0: the stream delivers its next n bytes, as many as fit
\* the room given at most.
ReadData ==
    /\ rd.st = "reading"
    /\ \E n \in 1..read_capacity(rd.max_bytes, rd.total) :
         /\ rd.total + n <= Len(rd.stream)
         /\ LET buf == rd.buf \o SubSeq(rd.stream, rd.total + 1, rd.total + n) IN
              IF Len(buf) >= rd.max_bytes
              THEN ReadReturn(buf, "SizeLimit", "Data")
              ELSE IF find_delimiter(buf, rd.extra) # 0
              THEN ReadReturn(buf, "Delimiter", "Data")
              ELSE rd' = [rd EXCEPT !.buf = buf, !.total = Len(buf),
                                    !.last = "Data"]
    /\ UNCHANGED <<engineVars, pl, ss, hp, lm, cf, oc, ot, dl, hd>>

\* Ok(Ok(0)): the peer has sent everything and closed, or the read was
\* given no room.
ReadEof ==
    /\ rd.st = "reading"
    /\ \/ rd.total >= Len(rd.stream)
       \/ read_capacity(rd.max_bytes, rd.total) <= 0
    /\ ReadReturn(rd.buf, rd.reason, "Eof")
    /\ UNCHANGED <<engineVars, pl, ss, hp, lm, cf, oc, ot, dl, hd>>

\* Ok(Err(err)): the stream fails; read() returns the error.
ReadError ==
    /\ rd.st = "reading"
    /\ read_capacity(rd.max_bytes, rd.total) > 0
    /\ rd' = read_failed(rd)
    /\ UNCHANGED <<engineVars, pl, ss, hp, lm, cf, oc, ot, dl, hd>>

\* Err(_): the peer stays silent for idle_timeout.
ReadIdle ==
    /\ rd.st = "reading"
    /\ read_capacity(rd.max_bytes, rd.total) > 0
    /\ ReadReturn(rd.buf, "Timeout", "Idle")
    /\ UNCHANGED <<engineVars, pl, ss, hp, lm, cf, oc, ot, dl, hd>>

\* One call of read() on a reader of any max_bytes up to MaxBytes, with any
\* of the delimiter arguments, over a stream of any content up to MaxBytes
\* bytes and any behaviour.
InitReader ==
    /\ cfg = [rate |-> 1, concurrency |-> 1]
    /\ EngineInit(0)
    /\ lm = Unused /\ cf = Unused /\ oc = Unused /\ ot = Unused /\ dl = Unused
    /\ hd = Unused
    /\ \E max_bytes \in 0..MaxBytes, extra \in Delimiters,
          peer \in ByteStrings(0, MaxBytes) :
           rd = ReaderInit(max_bytes, extra, peer)
    /\ pl = IdlePipeline
    /\ ss = IdleSession
    /\ hp = IdleHttp

NextReader ==
    \/ ReadData
    \/ ReadEof
    \/ ReadError
    \/ ReadIdle

SpecReader == InitReader /\ [][NextReader]_vars

Contains(buf, w) == position(buf, w) # 0

\* C9: the bytes returned by one read() call number at most max_bytes.
C9_BytesBounded ==
    rd.st = "done" => Len(rd.bytes) <= rd.max_bytes

\* C9 witness: a read that returned as many bytes as max_bytes, more than
\* one, with reason SizeLimit.
C9_Full ==
    /\ rd.st = "done"
    /\ rd.reason = "SizeLimit"
    /\ rd.max_bytes > 1
    /\ Len(rd.bytes) = rd.max_bytes

\* C10 as stated: with no explicit delimiter the read does not go on once
\* the bytes received contain \r\n\r\n, \r\n or \n, and a read that ended
\* with them received, below max_bytes, ended with reason Delimiter.
C10_DefaultDelimiters ==
    (rd.st \in {"reading", "done"} /\ rd.extra = "None"
        /\ Len(rd.buf) < rd.max_bytes
        /\ \/ Contains(rd.buf, <<CR, LF, CR, LF>>)
           \/ Contains(rd.buf, <<CR, LF>>)
           \/ Contains(rd.buf, <<LF>>))
    => (rd.st = "done" /\ rd.reason = "Delimiter")

\* C10 amended: with no explicit delimiter the read stops with reason
\* Delimiter as soon as the bytes received, fewer than max_bytes, contain
\* \r\n\r\n, and only then: \r\n or \n alone do not stop it.
C10_BlankLineOnly ==
    (rd.st \in {"reading", "done"} /\ rd.extra = "None") =>
        /\ (Len(rd.buf) < rd.max_bytes /\ Contains(rd.buf, <<CR, LF, CR, LF>>))
              => (rd.st = "done" /\ rd.reason = "Delimiter")
        /\ (rd.st = "done" /\ rd.reason = "Delimiter")
              => (Len(rd.buf) < rd.max_bytes /\ Contains(rd.buf, <<CR, LF, CR, LF>>))

\* C10 witness: a read without explicit delimiter that stopped with reason
\* Delimiter on \r\n\r\n.
C10_StoppedOnBlankLine ==
    /\ rd.st = "done"
    /\ rd.extra = "None"
    /\ rd.reason = "Delimiter"
    /\ Contains(rd.bytes, <<CR, LF, CR, LF>>)

\* C11: with no extra delimiter, over a stream of text with line endings
\* but without \r\n\r\n, shorter than max_bytes, that neither stalls nor
\* fails, the read stops only at the end of the stream, returning every
\* byte of it with reason ConnectionClosed.
C11_ReadsLinesToEnd ==
    (rd.st = "done" /\ rd.extra = "None"
        /\ Contains(rd.stream, <<LF>>)
        /\ ~Contains(rd.stream, <<CR, LF, CR, LF>>)
        /\ Len(rd.stream) < rd.max_bytes
        /\ rd.last \notin {"Idle", "Err"})
    => (rd.reason = "ConnectionClosed" /\ rd.bytes = rd.stream)

\* C11 witness: a read with no extra delimiter that returned a whole
\* stream of two lines ended by \r\n and by \n, with ConnectionClosed.
C11_TwoLinesRead ==
    /\ rd.st = "done"
    /\ rd.extra = "None"
    /\ rd.stream = <<"x", CR, LF, LF>>
    /\ rd.bytes = rd.stream
    /\ rd.reason = "ConnectionClosed"

\* C12: when a read stops with reason Delimiter the bytes returned are all
\* the bytes received: the whole delimiter is among them and so is every
\* byte that came after it.
C12_DelimiterKeepsAllBytes ==
    (rd.st = "done" /\ rd.reason = "Delimiter") =>
        /\ rd.bytes = SubSeq(rd.stream, 1, rd.total)
        /\ find_delimiter(rd.bytes, rd.extra) # 0
        /\ find_delimiter(rd.bytes, rd.extra) <= Len(rd.bytes)

\* C12 witness: a read that stopped on a delimiter and returned a byte
\* received after it.
C12_BytesPastDelimiter ==
    /\ rd.st = "done"
    /\ rd.reason = "Delimiter"
    /\ find_delimiter(rd.bytes, rd.extra) < Len(rd.bytes)

\* C13: read() returns an error exactly when the stream read failed; an
\* idle timeout gives a result with reason Timeout and the end of the
\* stream one with reason ConnectionClosed.
C13_ErrorOnlyOnIoError ==
    rd.st # "idle" =>
        /\ rd.st = "failed" <=> rd.last = "Err"
        /\ rd.last = "Idle" => (rd.st = "done" /\ rd.reason = "Timeout")
        /\ rd.last = "Eof" => (rd.st = "done" /\ rd.reason = "ConnectionClosed")

\* C13 witness: a read that failed on an I/O error after receiving bytes.
C13_FailedAfterData ==
    /\ rd.st = "failed"
    /\ rd.last = "Err"
    /\ rd.total > 0

-----------------------------------------------------------------------------
(***************************************************************************)
(* Handler selection and the per-target pipeline (clients/registry.rs,     *)
(* probe.rs, engine/pipeline.rs).                                          *)
(***************************************************************************)

ScanMode == {"Passive", "Active"}

ReadStopReason ==
    {"NotStarted", "ConnectionClosed", "Delimiter", "SizeLimit", "Timeout"}

Protocol ==
    {"Ftp", "Http", "Https", "Imap", "Memcached", "Mongodb", "Mqtt", "Mssql",
     "Mysql", "Pop3", "Postgres", "Redis", "Smb", "Smtp", "Ssh", "Telnet",
     "Tls", "Vnc", "Ntp"}

\* The ports tried: one per way the probes match (none, HTTP only, TLS and
\* HTTP, TLS only, Redis), and the FTP port.
Ports == {21, 2222, 80, 443, 9443, 6379}

\* The protocols client_for_target has a client for.
TcpClients ==
    {"Ftp", "Imap", "Memcached", "Mongodb", "Mqtt", "Mssql", "Mysql", "Pop3",
     "Redis", "Smb", "Smtp", "Ssh", "Telnet", "Vnc"}

\* client_for_target, without the test of the mode.
client_for_target_any_mode(mode, protocol) ==
    IF protocol \in TcpClients THEN protocol ELSE "None"

\* client_for_target(req): the client of the protocol, named here after
\* the protocol; "None" outside Active mode.
client_for_target(mode, protocol) ==
    IF mode # "Active" THEN "None"
    ELSE IF protocol \in TcpClients THEN protocol
    ELSE "None"

\* udp_client_for_target(req).
udp_client_for_target(mode, protocol) ==
    IF mode # "Active" THEN "None"
    ELSE IF protocol = "Ntp" THEN "Ntp"
    ELSE "None"

is_probably_tls_port(port) == port \in {443, 8443, 9443, 10443}

\* Prober::matches of RedisProbe, TlsProbe and HttpProbe.
matches(probe, port) ==
    CASE probe = "redis" -> port = 6379
      [] probe = "tls" -> is_probably_tls_port(port)
      [] probe = "http" -> port \in {80, 443, 8000, 8080, 8443}

PROBES == <<"redis", "tls", "http">>

\* probe_for_target(req): none in Passive mode; else the first probe of
\* PROBES that matches; else the HTTP probe unless the port looks like TLS.
probe_for_target(mode, port) ==
    IF mode = "Passive" THEN "None"
    ELSE LET hits == {i \in 1..Len(PROBES) : matches(PROBES[i], port)} IN
         IF hits # {}
         THEN PROBES[CHOOSE i \in hits : \A j \in hits : i <= j]
         ELSE IF mode = "Active" /\ ~is_probably_tls_port(port)
         THEN "http"
         ELSE "None"

\* DefaultProcessor::process_target is entered for a target.
PipelineInit(mode, protocol, port, webdriver) ==
    [st |-> "udp", mode |-> mode, protocol |-> protocol, port |-> port,
     webdriver |-> webdriver, handler |-> "None", written |-> FALSE,
     status |-> "None", stage |-> "None", connect_ms |-> "None",
     reason |-> "NotStarted", banner_empty |-> TRUE, result |-> "None"]

\* process_target returns a ScanOutcome: its status, diagnostics stage,
\* tcp.connect_ms, and its banner's read_reason and emptiness; result is
\* what the step that ended the processing returned, Ok or Err.
Returned(handler, written, res, status, stage, connect_ms, reason, banner_empty) ==
    pl' = [pl EXCEPT !.st = "done", !.handler = handler, !.written = written,
                     !.result = res,
                     !.status = status, !.stage = stage,
                     !.connect_ms = connect_ms, !.reason = reason,
                     !.banner_empty = banner_empty]

\* build_outcome_with_context(target, status, tcp, reason, Vec::new(), ...)
\* is returned: reason Timeout for the connect timeout, else NotStarted.
Outcome(handler, written, status, stage, connect_ms) ==
    Returned(handler, written, "Err", status, stage, connect_ms,
             IF status = "Timeout" THEN "Timeout" ELSE "NotStarted", TRUE)

\* The read results a handler can hand back, by reason and emptiness: a
\* read that stopped on a delimiter or on the size limit holds bytes.
HandlerResults(reasons) ==
    {r \in [reason : reasons, empty : BOOLEAN] :
        r.reason \in {"Delimiter", "SizeLimit"} => ~r.empty}

\* The status process_target gives the outcome of a TCP read result.
tcp_status(reason) == "Open"

\* The tail of process_target after a read result: the banner is rendered,
\* the page is fetched through the webdriver when configured for HTTP(S),
\* and an Open outcome is returned.
OpenOutcome(handler, written, res) ==
    \E stage \in IF pl.webdriver /\ pl.protocol \in {"Http", "Https"}
                 THEN {"None", "webdriver"} ELSE {"None"} :
        Returned(handler, written, "Ok", tcp_status(res.reason), stage,
                 pl.connect_ms, res.reason, res.empty)

\* attempt_udp_scan with a UDP client: it sends its datagram and reads; the
\* outcome is Open, Timeout, or Error with stage clients:<name>.
UdpExecute ==
    /\ pl.st = "udp"
    /\ udp_client_for_target(pl.mode, pl.protocol) # "None"
    /\ LET name == udp_client_for_target(pl.mode, pl.protocol) IN
       \/ Outcome("udp", TRUE, "Error", "clients:" \o name, "Some")
       \/ \E res \in HandlerResults(ReadStopReason) :
             Returned("udp", TRUE, "Ok",
                      IF res.reason = "Timeout" THEN "Timeout" ELSE "Open",
                      "None", "Some", res.reason, res.empty)
    /\ UNCHANGED <<engineVars, rd, ss, hp, lm, cf, oc, ot, dl, hd>>

\* attempt_udp_scan without a UDP client returns None.
UdpSkip ==
    /\ pl.st = "udp"
    /\ udp_client_for_target(pl.mode, pl.protocol) = "None"
    /\ pl' = [pl EXCEPT !.st = "connect"]
    /\ UNCHANGED <<engineVars, rd, ss, hp, lm, cf, oc, ot, dl, hd>>

\* connect_tcp: the connection is made, fails, or times out.
ConnectTcp ==
    /\ pl.st = "connect"
    /\ \E res \in {"Ok", "Err", "Elapsed"} :
        CASE res = "Ok" -> pl' = [pl EXCEPT !.st = "stream", !.connect_ms = "Some"]
          [] res = "Err" -> Outcome("None", FALSE, "Error", "connect", "None")
          [] res = "Elapsed" -> Outcome("None", FALSE, "Timeout", "connect", "None")
    /\ UNCHANGED <<engineVars, rd, ss, hp, lm, cf, oc, ot, dl, hd>>

\* process_tcp_stream with a client: client.execute talks its protocol and
\* may have written before it fails.
ClientExecute ==
    /\ pl.st = "stream"
    /\ client_for_target(pl.mode, pl.protocol) # "None"
    /\ LET name == client_for_target(pl.mode, pl.protocol) IN
       \E written \in BOOLEAN :
        \/ \E res \in HandlerResults(ReadStopReason) :
              OpenOutcome("client", written, res)
        \/ Outcome("client", written, "Error", "clients:" \o name, pl.connect_ms)
    /\ UNCHANGED <<engineVars, rd, ss, hp, lm, cf, oc, ot, dl, hd>>

\* process_tcp_stream with a probe and no client: probe.execute writes the
\* probe bytes, none of which is empty, and reads.
ProbeExecute ==
    /\ pl.st = "stream"
    /\ client_for_target(pl.mode, pl.protocol) = "None"
    /\ probe_for_target(pl.mode, pl.port) # "None"
    /\ \/ \E res \in HandlerResults(ReadStopReason \ {"NotStarted"}) :
             OpenOutcome("probe", TRUE, res)
       \/ Outcome("probe", TRUE, "Error", "probe", pl.connect_ms)
    /\ UNCHANGED <<engineVars, rd, ss, hp, lm, cf, oc, ot, dl, hd>>

\* process_tcp_stream with neither: reader.read(&mut stream, None) alone.
BareRead ==
    /\ pl.st = "stream"
    /\ client_for_target(pl.mode, pl.protocol) = "None"
    /\ probe_for_target(pl.mode, pl.port) = "None"
    /\ \/ \E res \in HandlerResults(ReadStopReason \ {"NotStarted"}) :
             OpenOutcome("banner-read", FALSE, res)
       \/ Outcome("banner-read", FALSE, "Error", "banner-read", pl.connect_ms)
    /\ UNCHANGED <<engineVars, rd, ss, hp, lm, cf, oc, ot, dl, hd>>

\* One target of any port processed under a configuration of any mode and
\* protocol.
InitPipeline ==
    /\ cfg = [rate |-> 1, concurrency |-> 1]
    /\ EngineInit(0)
    /\ lm = Unused /\ cf = Unused /\ oc = Unused /\ ot = Unused /\ dl = Unused
    /\ hd = Unused
    /\ rd = IdleReader
    /\ ss = IdleSession
    /\ hp = IdleHttp
    /\ \E mode \in ScanMode, protocol \in Protocol, port \in Ports,
          webdriver \in BOOLEAN :
           pl = PipelineInit(mode, protocol, port, webdriver)

NextPipeline ==
    \/ UdpExecute
    \/ UdpSkip
    \/ ConnectTcp
    \/ ClientExecute
    \/ ProbeExecute
    \/ BareRead

SpecPipeline == InitPipeline /\ [][NextPipeline]_vars

\* C5: in Passive mode no UDP client, TCP client or probe is selected
\* whatever the target, nothing is written to the target's socket, and the
\* only handler that runs on the stream is the bare read.
C5_PassiveOnlyReads ==
    (pl.st # "idle" /\ pl.mode = "Passive") =>
        /\ udp_client_for_target(pl.mode, pl.protocol) = "None"
        /\ client_for_target(pl.mode, pl.protocol) = "None"
        /\ probe_for_target(pl.mode, pl.port) = "None"
        /\ pl.written = FALSE
        /\ pl.handler \in {"None", "banner-read"}

\* C5 witness: a Passive run finished on a bare read for a protocol that
\* has a client and a port that has a probe.
C5_PassiveBareRead ==
    /\ pl.st = "done"
    /\ pl.mode = "Passive"
    /\ pl.protocol = "Redis"
    /\ pl.port = 6379
    /\ pl.handler = "banner-read"
    /\ pl.status = "Open"

\* C17: when a TCP handler, a probe or the bare banner read returns an error
\* after the connection was established, the outcome has status Error, stage
\* "client:<name>", "probe" or "banner-read" respectively, and the
\* connect_ms recorded at connect time.
C17_HandlerErrorOutcome ==
    (/\ pl.st = "done"
     /\ pl.handler \in {"client", "probe", "banner-read"}
     /\ pl.result = "Err")
        => /\ pl.status = "Error"
           /\ pl.connect_ms = "Some"
           /\ pl.stage = IF pl.handler = "client"
                         THEN "client:" \o client_for_target(pl.mode, pl.protocol)
                         ELSE pl.handler

\* C19: when a connected server never writes any byte, the banner read ends
\* with reason Timeout and the outcome has status Timeout.
C19_SilentServerTimeout ==
    (/\ pl.st = "done"
     /\ pl.handler = "banner-read"
     /\ pl.result = "Ok"
     /\ pl.banner_empty
     /\ pl.reason = "Timeout")
        => pl.status = "Timeout"

-----------------------------------------------------------------------------
(***************************************************************************)
(* The client session (core/clients/session.rs, client/session.rs).        *)
(***************************************************************************)

\* The k-th part's bytes, n of them, each told apart from every other byte
\* of the session.
PartBytes(k, n) == [i \in 1..n |-> <<k, i>>]

\* What reader.read can return to a session as its k-th part (length,
\* reason and flag of BannerReader::read's result): fewer than max_bytes
\* bytes with the reason the loop broke on, or max_bytes bytes, truncated.
ReadResults(k, max_bytes) ==
    {[bytes |-> PartBytes(k, n), reason |-> reason, truncated |-> FALSE] :
        n \in 0..(max_bytes - 1), reason \in {"ConnectionClosed", "Timeout"}}
    \cup
    {[bytes |-> PartBytes(k, n), reason |-> "Delimiter", truncated |-> FALSE] :
        n \in 1..(max_bytes - 1)}
    \cup
    {[bytes |-> PartBytes(k, max_bytes), truncated |-> TRUE,
      reason |-> IF max_bytes > 0 THEN "SizeLimit" ELSE "ConnectionClosed"]}

\* ClientSession::new(cfg).
SessionInit(max_bytes) ==
    [st |-> "open", max_bytes |-> max_bytes, parts |-> <<>>,
     truncated |-> FALSE,
     result |-> [bytes |-> <<>>, reason |-> "NotStarted", truncated |-> FALSE]]

\* `take` of finish(), taking the whole part.
take_all(len, remaining) == len

\* let take = part.bytes.len().min(remaining)
take(len, remaining) == IF len <= remaining THEN len ELSE remaining

\* One turn of the loop of finish(), taking the part's reason only when
\* bytes of it are taken.
merge_part_reason_when_taken(acc, part, max_bytes) ==
    IF Len(acc.merged) < max_bytes
    THEN LET n == take(Len(part.bytes), max_bytes - Len(acc.merged)) IN
         [merged |-> acc.merged \o SubSeq(part.bytes, 1, n),
          reason |-> part.reason,
          truncated |-> acc.truncated \/ n < Len(part.bytes)]
    ELSE [merged |-> acc.merged, reason |-> acc.reason, truncated |-> TRUE]

\* One turn of the loop of finish() over a part.
merge_part(acc, part, max_bytes) ==
    IF Len(acc.merged) < max_bytes
    THEN LET n == take(Len(part.bytes), max_bytes - Len(acc.merged)) IN
         [merged |-> acc.merged \o SubSeq(part.bytes, 1, n),
          reason |-> part.reason,
          truncated |-> acc.truncated \/ n < Len(part.bytes)]
    ELSE [merged |-> acc.merged, reason |-> part.reason, truncated |-> TRUE]

RECURSIVE merge_parts(_, _, _)
\* The loop of finish() over self.parts.drain(..).
merge_parts(acc, parts, max_bytes) ==
    IF parts = <<>> THEN acc
    ELSE merge_parts(merge_part(acc, Head(parts), max_bytes), Tail(parts), max_bytes)

\* The truncated flag of finish(), without the test of the final length.
finish_truncated_flag_only(flag, final_len, max_bytes) == flag

\* The truncated flag of finish(), testing final_len > max_bytes.
finish_truncated_over_cap(flag, final_len, max_bytes) == flag \/ final_len > max_bytes

\* truncated: self.truncated || final_len >= self.max_bytes
finish_truncated(flag, final_len, max_bytes) == flag \/ final_len >= max_bytes

\* ClientSession::finish(self).
finish(session) ==
    LET acc == merge_parts([merged |-> <<>>, reason |-> "NotStarted",
                            truncated |-> session.truncated],
                           session.parts, session.max_bytes)
    IN [bytes |-> acc.merged, reason |-> acc.reason,
        truncated |-> finish_truncated(acc.truncated, Len(acc.merged),
                                       session.max_bytes)]

\* session.read / read_with_result: reader.read returns a result; it is
\* pushed and its truncated flag or-ed into the session's.
SessionRead ==
    /\ ss.st = "open"
    /\ Len(ss.parts) < MaxParts
    /\ \E res \in ReadResults(Len(ss.parts) + 1, ss.max_bytes) :
         ss' = [ss EXCEPT !.parts = Append(@, res),
                          !.truncated = @ \/ res.truncated]
    /\ UNCHANGED <<engineVars, rd, pl, hp, lm, cf, oc, ot, dl, hd>>

\* session.read: reader.read fails; the error leaves the client's execute
\* by `?` and the session is dropped.
SessionReadError ==
    /\ ss.st = "open"
    /\ ss' = [ss EXCEPT !.st = "failed"]
    /\ UNCHANGED <<engineVars, rd, pl, hp, lm, cf, oc, ot, dl, hd>>

\* session.append_metadata(bytes): a part of any length, reason NotStarted,
\* not truncated.
AppendMetadata ==
    /\ ss.st = "open"
    /\ Len(ss.parts) < MaxParts
    /\ \E n \in 0..MaxSessionBytes :
         ss' = [ss EXCEPT !.parts = Append(@,
                   [bytes |-> PartBytes(Len(ss.parts) + 1, n),
                    reason |-> "NotStarted", truncated |-> FALSE])]
    /\ UNCHANGED <<engineVars, rd, pl, hp, lm, cf, oc, ot, dl, hd>>

\* push_timeout(), of session.read once the deadline has passed: an empty
\* part with reason Timeout.
PushTimeout ==
    /\ ss.st = "open"
    /\ Len(ss.parts) < MaxParts
    /\ ss' = [ss EXCEPT !.parts = Append(@,
                 [bytes |-> <<>>, reason |-> "Timeout", truncated |-> FALSE])]
    /\ UNCHANGED <<engineVars, rd, pl, hp, lm, cf, oc, ot, dl, hd>>

\* session.finish()
SessionFinish ==
    /\ ss.st = "open"
    /\ ss' = [ss EXCEPT !.st = "finished", !.result = finish(ss)]
    /\ UNCHANGED <<engineVars, rd, pl, hp, lm, cf, oc, ot, dl, hd>>

\* One session under any max_bytes up to MaxSessionBytes, accumulating up
\* to MaxParts parts of any kind before it is finished.
InitSession ==
    /\ cfg = [rate |-> 1, concurrency |-> 1]
    /\ EngineInit(0)
    /\ lm = Unused /\ cf = Unused /\ oc = Unused /\ ot = Unused /\ dl = Unused
    /\ hd = Unused
    /\ rd = IdleReader
    /\ pl = IdlePipeline
    /\ \E max_bytes \in 0..MaxSessionBytes : ss = SessionInit(max_bytes)
    /\ hp = IdleHttp

NextSession ==
    \/ SessionRead
    \/ SessionReadError
    \/ AppendMetadata
    \/ PushTimeout
    \/ SessionFinish

SpecSession == InitSession /\ [][NextSession]_vars

RECURSIVE TotalLen(_)
\* The number of bytes in a sequence of parts.
TotalLen(parts) ==
    IF parts = <<>> THEN 0 ELSE Len(Head(parts).bytes) + TotalLen(Tail(parts))

\* The bytes of the session's parts that are not in the result of finish.
Dropped == TotalLen(ss.parts) - Len(ss.result.bytes)

\* C15: whatever parts the session accumulated, finish() returns at most
\* max_bytes bytes.
C15_FinishBounded ==
    ss.st = "finished" => Len(ss.result.bytes) <= ss.max_bytes

\* C15 witness: a finished session whose parts held more than max_bytes
\* bytes and whose result holds max_bytes bytes of more than one part.
C15_MergedToTheCap ==
    /\ ss.st = "finished"
    /\ TotalLen(ss.parts) > ss.max_bytes
    /\ Len(ss.result.bytes) = ss.max_bytes
    /\ Len(ss.parts) >= 2
    /\ Len(ss.parts[1].bytes) < ss.max_bytes
    /\ Len(ss.parts[1].bytes) > 0

\* C16 as stated: the truncated flag of finish() is true exactly when a
\* byte was dropped in merging or a part was itself truncated.
C16_TruncatedIffLoss ==
    ss.st = "finished" =>
        (ss.result.truncated <=>
            (Dropped > 0 \/ \E k \in 1..Len(ss.parts) : ss.parts[k].truncated))

\* C16 amended: the truncated flag of finish() is true exactly when a byte
\* was dropped in merging, or a part was itself truncated, or the merged
\* bytes number max_bytes.
C16_TruncatedIffLossOrFull ==
    ss.st = "finished" =>
        (ss.result.truncated <=>
            \/ Dropped > 0
            \/ \E k \in 1..Len(ss.parts) : ss.parts[k].truncated
            \/ Len(ss.result.bytes) = ss.max_bytes)

\* C16 witness: a finished session that is flagged truncated though no
\* byte was dropped and no part was truncated: its parts fill max_bytes
\* exactly.
C16_ExactFit ==
    /\ ss.st = "finished"
    /\ ss.result.truncated
    /\ Dropped = 0
    /\ \A k \in 1..Len(ss.parts) : ~ss.parts[k].truncated
    /\ Len(ss.parts) >= 2
    /\ ss.max_bytes > 0

\* C27: finish() returns truncated = true when some part was truncated,
\* when the merged length is max_bytes, and when bytes of some part were
\* dropped by the cap; it returns truncated = false in every other case.
C27_TruncatedCases ==
    ss.st = "finished" =>
        /\ (\E k \in 1..Len(ss.parts) : ss.parts[k].truncated) => ss.result.truncated
        /\ Len(ss.result.bytes) = ss.max_bytes => ss.result.truncated
        /\ TotalLen(ss.parts) > Len(ss.result.bytes) => ss.result.truncated
        /\ (/\ \A k \in 1..Len(ss.parts) : ~ss.parts[k].truncated
            /\ Len(ss.result.bytes) # ss.max_bytes
            /\ TotalLen(ss.parts) = Len(ss.result.bytes)) => ~ss.result.truncated

\* C27: a finished session of several parts with bytes that is not
\* truncated, its parts staying below max_bytes.
C27_NotTruncated ==
    /\ ss.st = "finished"
    /\ ~ss.result.truncated
    /\ Len(ss.parts) >= 2
    /\ Len(ss.result.bytes) >= 2

RECURSIVE Concat(_)
\* The bytes of a sequence of parts, in insertion order.
Concat(parts) ==
    IF parts = <<>> THEN <<>> ELSE Head(parts).bytes \o Concat(Tail(parts))

\* C28: finish() returns the stop reason of the last part in insertion
\* order, NotStarted with no parts, and the first min(max_bytes, total)
\* bytes of the parts concatenated in insertion order.
C28_LastReasonFirstBytes ==
    ss.st = "finished" =>
        /\ ss.result.reason =
               IF ss.parts = <<>> THEN "NotStarted"
               ELSE ss.parts[Len(ss.parts)].reason
        /\ ss.result.bytes =
               SubSeq(Concat(ss.parts), 1,
                      IF TotalLen(ss.parts) <= ss.max_bytes
                      THEN TotalLen(ss.parts) ELSE ss.max_bytes)

\* C28: the last part holds bytes that were all dropped by the cap, and its
\* reason differs from that of the part before it.
C28_LastPartDropped ==
    /\ ss.st = "finished"
    /\ Len(ss.parts) >= 2
    /\ Len(ss.parts[Len(ss.parts)].bytes) > 0
    /\ TotalLen(SubSeq(ss.parts, 1, Len(ss.parts) - 1)) >= ss.max_bytes
    /\ ss.max_bytes > 0
    /\ ss.parts[Len(ss.parts)].reason # ss.parts[Len(ss.parts) - 1].reason

-----------------------------------------------------------------------------
(***************************************************************************)
(* The HTTP probe (probe/http.rs).  The response is known by its lengths:  *)
(* what the first read returned, whether it announces a Content-Length and *)
(* which, and where its header block ends.  Any combination of these is    *)
(* taken to be possible.                                                   *)
(***************************************************************************)

\* HttpProbe::execute is entered.
HttpInit(max_bytes) ==
    [st |-> "request", max_bytes |-> max_bytes, len |-> 0,
     reason |-> "NotStarted", truncated |-> FALSE,
     has_length |-> FALSE, content_length |-> 0, already_have_body |-> 0,
     available |-> 0, expected |-> 0, read |-> 0]

\* a.saturating_sub(b)
saturating_sub(a, b) == IF a >= b THEN a - b ELSE 0

\* let expected = missing.min(available)
expected_all_missing(missing, available) == missing
expected_bytes(missing, available) ==
    IF missing <= available THEN missing ELSE available

\* The result marked truncated, its reason left as it was.
oversized_flag_only(r) == [r EXCEPT !.truncated = TRUE]

\* result.truncated = true; result.reason = SizeLimit
oversized(r) == [r EXCEPT !.truncated = TRUE, !.reason = "SizeLimit"]

\* The end of execute after the loop over the body: the result is marked
\* oversized when the announced body cannot fit, closed when the expected
\* bytes all came; the bytes read are appended.
HttpReturn(r) ==
    LET marked ==
          IF r.content_length > r.already_have_body + r.available
          THEN oversized(r)
          ELSE IF r.read = r.expected
          THEN [r EXCEPT !.reason = "ConnectionClosed"]
          ELSE r
    IN [marked EXCEPT !.st = "done", !.len = r.len + r.read]

\* write_all(request) or the first reader.read fails: execute returns Err.
HttpFails ==
    /\ hp.st = "request"
    /\ hp' = [hp EXCEPT !.st = "failed"]
    /\ UNCHANGED <<engineVars, rd, pl, ss, lm, cf, oc, ot, dl, hd>>

\* The request is written and reader.read returns a response without a
\* Content-Length: the result is returned as it is.
HttpNoLength ==
    /\ hp.st = "request"
    /\ \E res \in ReadResults(1, hp.max_bytes) :
         hp' = [hp EXCEPT !.st = "done", !.len = Len(res.bytes),
                          !.reason = res.reason, !.truncated = res.truncated]
    /\ UNCHANGED <<engineVars, rd, pl, ss, lm, cf, oc, ot, dl, hd>>

\* The request is written and reader.read returns a response announcing a
\* Content-Length: either the result is returned at once (no room left or
\* nothing missing), or the body is read on.
HttpLength ==
    /\ hp.st = "request"
    /\ \E res \in ReadResults(1, hp.max_bytes),
          content_length \in 0..(MaxSessionBytes + 1),
          header_end \in 1..(MaxSessionBytes + 1) :
         /\ header_end <= Len(res.bytes)
         /\ LET already_have_body == saturating_sub(Len(res.bytes), header_end)
                available == saturating_sub(hp.max_bytes, Len(res.bytes))
                missing == saturating_sub(content_length, already_have_body)
                r == [hp EXCEPT !.len = Len(res.bytes), !.reason = res.reason,
                                !.truncated = res.truncated,
                                !.has_length = TRUE,
                                !.content_length = content_length,
                                !.already_have_body = already_have_body,
                                !.available = available]
            IN IF available = 0 \/ missing = 0
               THEN hp' = [(IF missing > 0 THEN oversized(r) ELSE r)
                              EXCEPT !.st = "done"]
               ELSE hp' = [r EXCEPT !.st = "body",
                              !.expected = expected_bytes(missing, available)]
    /\ UNCHANGED <<engineVars, rd, pl, ss, lm, cf, oc, ot, dl, hd>>

\* Ok(Ok(n)) in the loop over the body; the loop ends once `expected`
\* bytes are read.
HttpBodyData ==
    /\ hp.st = "body"
    /\ \E n \in 1..(hp.expected - hp.read) :
         LET r == [hp EXCEPT !.read = hp.read + n] IN
           hp' = IF r.read < r.expected THEN r ELSE HttpReturn(r)
    /\ UNCHANGED <<engineVars, rd, pl, ss, lm, cf, oc, ot, dl, hd>>

\* Ok(Ok(0)) in the loop over the body.
HttpBodyEof ==
    /\ hp.st = "body"
    /\ hp' = HttpReturn([hp EXCEPT !.reason = "ConnectionClosed"])
    /\ UNCHANGED <<engineVars, rd, pl, ss, lm, cf, oc, ot, dl, hd>>

\* Err(_) in the loop over the body: the read timeout elapsed.
HttpBodyIdle ==
    /\ hp.st = "body"
    /\ hp' = HttpReturn([hp EXCEPT !.reason = "Timeout"])
    /\ UNCHANGED <<engineVars, rd, pl, ss, lm, cf, oc, ot, dl, hd>>

\* Ok(Err(err)) in the loop over the body: execute returns Err.
HttpBodyError ==
    /\ hp.st = "body"
    /\ hp' = [hp EXCEPT !.st = "failed"]
    /\ UNCHANGED <<engineVars, rd, pl, ss, lm, cf, oc, ot, dl, hd>>

\* One HttpProbe::execute under any max_bytes up to MaxSessionBytes.
InitHttp ==
    /\ cfg = [rate |-> 1, concurrency |-> 1]
    /\ EngineInit(0)
    /\ lm = Unused /\ cf = Unused /\ oc = Unused /\ ot = Unused /\ dl = Unused
    /\ hd = Unused
    /\ rd = IdleReader
    /\ pl = IdlePipeline
    /\ ss = IdleSession
    /\ \E max_bytes \in 0..MaxSessionBytes : hp = HttpInit(max_bytes)

NextHttp ==
    \/ HttpFails
    \/ HttpNoLength
    \/ HttpLength
    \/ HttpBodyData
    \/ HttpBodyEof
    \/ HttpBodyIdle
    \/ HttpBodyError

\* The producers of ReadResults side by side: one reader call, or one
\* session, or one HTTP probe.
InitResults == InitReader \/ InitSession \/ InitHttp

NextResults == NextReader \/ NextSession \/ NextHttp

SpecResults == InitResults /\ [][NextResults]_vars

\* C14: every ReadResult returned by the reader, by session.finish() or by
\* the HTTP probe that is flagged truncated holds max_bytes bytes or has
\* reason SizeLimit.
C14_TruncatedMeansCapped ==
    /\ rd.st = "done" =>
          (rd.truncated =>
              (Len(rd.bytes) = rd.max_bytes \/ rd.reason = "SizeLimit"))
    /\ ss.st = "finished" =>
          (ss.result.truncated =>
              (Len(ss.result.bytes) = ss.max_bytes
                  \/ ss.result.reason = "SizeLimit"))
    /\ hp.st = "done" =>
          (hp.truncated =>
              (hp.len = hp.max_bytes \/ hp.reason = "SizeLimit"))

\* C14 witness: an HTTP probe result flagged truncated that holds fewer
\* than max_bytes bytes: the body announced cannot fit and stopped coming.
C14_OversizedBody ==
    /\ hp.st = "done"
    /\ hp.truncated
    /\ hp.len < hp.max_bytes
    /\ hp.read > 0

\* C37: after the first read of an HTTP response whose Content-Length was
\* parsed, the probe pulls at most min(content_length - body bytes already
\* held, max_bytes - bytes already held) additional bytes, so its result
\* never exceeds max_bytes.
C37_BodyPullBounded ==
    (hp.st \in {"body", "done"} /\ hp.has_length) =>
        LET held == IF hp.st = "done" THEN hp.len - hp.read ELSE hp.len
            missing == saturating_sub(hp.content_length, hp.already_have_body)
            room == saturating_sub(hp.max_bytes, held)
        IN  /\ hp.read <= missing
            /\ hp.read <= room
            /\ held + hp.read <= hp.max_bytes

\* C37: the body announced was longer than the room left, and the probe
\* pulled bytes up to max_bytes and no further.
C37_PulledToTheCap ==
    /\ hp.st = "done"
    /\ hp.has_length
    /\ hp.read > 0
    /\ hp.len = hp.max_bytes
    /\ hp.content_length > hp.already_have_body + hp.read

\* C38: when one read brings the captured total to max_bytes and the
\* captured bytes also contain a delimiter, the read stops with reason
\* SizeLimit and truncated = true, not with reason Delimiter.
C38_SizeLimitBeforeDelimiter ==
    (/\ rd.st = "done"
     /\ rd.last = "Data"
     /\ rd.total >= rd.max_bytes
     /\ find_delimiter(rd.buf, rd.extra) # 0) =>
        rd.reason = "SizeLimit" /\ rd.truncated

\* C38: the read that filled the buffer brought the delimiter with it.
C38_DelimiterInLastRead ==
    /\ rd.st = "done"
    /\ rd.last = "Data"
    /\ rd.max_bytes >= 2
    /\ rd.total = rd.max_bytes
    /\ find_delimiter(rd.buf, rd.extra) = rd.max_bytes
    /\ rd.reason = "SizeLimit"

-----------------------------------------------------------------------------
(***************************************************************************)
(* The rate limiter alone, under a burst of acquires issued back to back   *)
(* by one caller (engine/rate.rs).  Time is in milliseconds here.          *)
(***************************************************************************)

\* with_jitter(): Duration::from_secs(1), in milliseconds.
RefillMillis == 1000

\* jitter_delay(): rng.gen_range(5..20) milliseconds.
JitterMinMillis == 5
JitterEndMillis == 20

jitter_delay_millis(jitter_enabled) ==
    IF jitter_enabled THEN JitterMinMillis..(JitterEndMillis - 1) ELSE {0}

\* RateLimiter::with_jitter(fill_rate, jitter_enabled) at instant 0, and a
\* caller about to issue `acquires` acquires.
BurstInit(fill_rate, jitter_enabled, acquires) ==
    [st |-> "acquire", fill_rate |-> fill_rate, jitter_enabled |-> jitter_enabled,
     left |-> acquires, now |-> 0, permits |-> fill_rate, last_refill |-> 0,
     wakeAt |-> 0, completedAt |-> <<>>]

\* One turn of the loop of acquire(): refill, then take a permit and
\* return, the caller issuing its next acquire at once, or sleep.
BurstAcquire ==
    /\ lm.st = "acquire"
    /\ LET r == refill_within(lm.permits, lm.last_refill, lm.now, lm.fill_rate,
                              RefillMillis)
           a == try_acquire(r.permits) IN
        IF a.ok
        THEN lm' = [lm EXCEPT !.permits = a.permits, !.last_refill = r.last,
                              !.completedAt = Append(@, lm.now),
                              !.left = @ - 1,
                              !.st = IF lm.left = 1 THEN "done" ELSE "acquire"]
        ELSE \E j \in jitter_delay_millis(lm.jitter_enabled) :
               lm' = [lm EXCEPT !.permits = a.permits, !.last_refill = r.last,
                                !.st = "sleep",
                                !.wakeAt = lm.now + j +
                                    time_until_refill_within(r.last, lm.now,
                                                             RefillMillis)]
    /\ UNCHANGED <<engineVars, rd, pl, ss, hp, cf, oc, ot, dl, hd>>

\* A millisecond of sleep(wait_for) passes.
BurstTick ==
    /\ lm.st = "sleep"
    /\ lm.now < lm.wakeAt
    /\ lm' = [lm EXCEPT !.now = @ + 1]
    /\ UNCHANGED <<engineVars, rd, pl, ss, hp, cf, oc, ot, dl, hd>>

\* sleep(wait_for) ends; the loop turns again.
BurstWake ==
    /\ lm.st = "sleep"
    /\ lm.now >= lm.wakeAt
    /\ lm' = [lm EXCEPT !.st = "acquire"]
    /\ UNCHANGED <<engineVars, rd, pl, ss, hp, cf, oc, ot, dl, hd>>

InitBurst ==
    /\ cfg = [rate |-> 1, concurrency |-> 1]
    /\ EngineInit(0)
    /\ rd = IdleReader
    /\ pl = IdlePipeline
    /\ ss = IdleSession
    /\ hp = IdleHttp
    /\ cf = Unused
    /\ oc = Unused
    /\ ot = Unused
    /\ dl = Unused
    /\ hd = Unused
    /\ \E jitter_enabled \in BOOLEAN : lm = BurstInit(4, jitter_enabled, 8)

NextBurst == BurstAcquire \/ BurstTick \/ BurstWake

SpecBurst == InitBurst /\ [][NextBurst]_vars

\* C21: with rate 4 and 8 acquires issued from instant 0, the 5th acquire
\* and those after it complete no earlier than 250 ms, and no acquire
\* completes later than 1.2 s.
C21_BurstTiming ==
    \A i \in 1..Len(lm.completedAt) :
        /\ i >= 5 => lm.completedAt[i] >= 250
        /\ lm.completedAt[i] <= 1200

\* C21: all 8 acquires have completed, the 5th after a sleep.
C21_BurstCompleted ==
    /\ lm.st = "done"
    /\ Len(lm.completedAt) = 8
    /\ lm.completedAt[4] = 0
    /\ lm.completedAt[5] > 0

-----------------------------------------------------------------------------
(***************************************************************************)
(* Configuration load (cli.rs) and the connect timeout the pipeline        *)
(* applies to a target (engine/pipeline.rs).  Durations are milliseconds;  *)
(* the u64 of the command line is scaled down to 0..U64Max.                *)
(***************************************************************************)

U64Max == 15
MaxMillis == 3

\* The ports of the targets tried: FTP and another.
saturating_mul(a, b) == IF a * b > U64Max THEN U64Max ELSE a * b
saturating_add(a, b) == IF a + b > U64Max THEN U64Max ELSE a + b

\* A parsed command line, Cli.
CliInit(host, has_port, port, input, concurrency, rate, mode, connect, read, overall) ==
    [st |-> "cli", host |-> host, has_port |-> has_port, port |-> port,
     input |-> input, concurrency |-> concurrency, rate |-> rate, mode |-> mode,
     connect_timeout_ms |-> connect,
     read_timeout_ms |-> read,
     overall_timeout_ms |-> overall,
     has_target |-> FALSE, has_port_filter |-> FALSE, connect_timeout |-> 0,
     read_timeout |-> 0, overall_timeout |-> 0, target_port |-> 0,
     effective_connect_timeout |-> 0]

\* into_config: the multiplier of the connect timeout in the minimum of the
\* overall timeout.
ftp_connect_multiplier(mode, has_port, port) ==
    IF mode = "Active" /\ has_port /\ port = 21 THEN 4 ELSE 1

\* into_config: the overall timeout of the Config.
overall_timeout_ms(c) ==
    LET effective_connect_timeout_ms ==
            saturating_mul(c.connect_timeout_ms,
                           ftp_connect_multiplier(c.mode, c.has_port, c.port))
        min_overall_timeout_ms ==
            saturating_add(effective_connect_timeout_ms,
                           saturating_mul(c.read_timeout_ms, 2))
    IN  IF c.overall_timeout_ms >= min_overall_timeout_ms
        THEN c.overall_timeout_ms ELSE min_overall_timeout_ms

\* Cli::into_config: reject the command line, or build the Config.
IntoConfig ==
    /\ cf.st = "cli"
    /\ IF \/ ~cf.host /\ ~cf.input
          \/ cf.host /\ cf.input
          \/ cf.concurrency = 0
          \/ cf.rate = 0
          \/ cf.host /\ ~cf.has_port
          \/ ~cf.host /\ cf.has_port /\ ~cf.input
       THEN cf' = [cf EXCEPT !.st = "rejected"]
       ELSE cf' = [cf EXCEPT !.st = "config",
                             !.has_target = cf.host /\ cf.has_port,
                             !.has_port_filter = ~cf.host /\ cf.input /\ cf.has_port,
                             !.connect_timeout = cf.connect_timeout_ms,
                             !.read_timeout = cf.read_timeout_ms,
                             !.overall_timeout = overall_timeout_ms(cf)]
    /\ UNCHANGED <<engineVars, rd, pl, ss, hp, lm, oc, ot, dl, hd>>

\* adjusted_connect_timeout(config, target): Duration::saturating_mul does
\* not saturate on four times a u64 of milliseconds.
adjusted_connect_timeout_any_mode(timeout, mode, port) ==
    IF port = 21 THEN timeout * 4 ELSE timeout
adjusted_connect_timeout(timeout, mode, port) ==
    IF mode = "Active" /\ port = 21 THEN timeout * 4 ELSE timeout

\* The ports of the targets stream_targets yields under a Config: the port
\* of --host/--port, or those of the lines of --input that pass the filter.
target_ports(c) ==
    IF c.has_target THEN {c.port}
    ELSE {p \in {21, 80} : c.has_port_filter => p = c.port}

\* process_target: a target arrives and the pipeline computes the connect
\* timeout it applies to it.
ProcessTarget ==
    /\ cf.st \in {"config", "target"}
    /\ \E port \in target_ports(cf) :
        cf' = [cf EXCEPT !.st = "target", !.target_port = port,
                         !.effective_connect_timeout =
                             adjusted_connect_timeout(cf.connect_timeout, cf.mode, port)]
    /\ UNCHANGED <<engineVars, rd, pl, ss, hp, lm, oc, ot, dl, hd>>

InitConfig ==
    /\ cfg = [rate |-> 1, concurrency |-> 1]
    /\ EngineInit(0)
    /\ rd = IdleReader
    /\ pl = IdlePipeline
    /\ ss = IdleSession
    /\ hp = IdleHttp
    /\ lm = Unused
    /\ oc = Unused
    /\ ot = Unused
    /\ dl = Unused
    /\ hd = Unused
    /\ \E host \in BOOLEAN, has_port \in BOOLEAN, input \in BOOLEAN,
          concurrency \in 0..1, rate \in 0..1, mode \in ScanMode,
          connect_timeout_ms \in 0..MaxMillis, read_timeout_ms \in 0..MaxMillis,
          overall_ms \in 0..MaxMillis :
        \E port \in IF has_port THEN {21, 80} ELSE {0} :
           cf = CliInit(host, has_port, port, input, concurrency, rate, mode,
                        connect_timeout_ms, read_timeout_ms, overall_ms)

NextConfig == IntoConfig \/ ProcessTarget

SpecConfig == InitConfig /\ [][NextConfig]_vars

\* C22: after configuration load, overall_timeout is at least the connect
\* timeout the pipeline applies to each target it processes plus twice the
\* read timeout.
C22_OverallCoversTarget ==
    cf.st = "target" =>
        cf.overall_timeout >= cf.effective_connect_timeout + 2 * cf.read_timeout

\* C23: the effective connect timeout of a target is four times
\* connect_timeout in Active mode on port 21, and connect_timeout in every
\* other case.
C23_EffectiveConnectTimeout ==
    cf.st = "target" =>
        cf.effective_connect_timeout =
            IF cf.mode = "Active" /\ cf.target_port = 21
            THEN 4 * cf.connect_timeout
            ELSE cf.connect_timeout

\* C23: an active FTP target with a non-zero connect timeout, and a
\* passive one.
C23_ActiveFtp ==
    /\ cf.st = "target"
    /\ cf.mode = "Active"
    /\ cf.target_port = 21
    /\ cf.connect_timeout > 0
    /\ cf.effective_connect_timeout = 4 * cf.connect_timeout

-----------------------------------------------------------------------------
(***************************************************************************)
(* The output channel (output/channel.rs): emitters sending on a bounded   *)
(* queue, the blocking writer consuming it, and callers of shutdown().     *)
(***************************************************************************)

NumEmitters == 2
MaxEmits == 3
ChannelCapacity == 2
NumShutdowns == 2


\* OutputChannel::new: the queue is empty, the writer runs, tx and handle
\* are there and their mutexes free (holder 0).
ChannelInit ==
    [st |-> "live", tx |-> "Some", tx_lock |-> 0, handle |-> "Some",
     handle_lock |-> 0, queue |-> <<>>, written |-> <<>>, accepted |-> <<>>,
     writer |-> "running", calls |-> 0,
     em |-> [e \in 1..NumEmitters |-> [pc |-> "idle", emits |-> 0, late |-> FALSE,
                                 waited |-> FALSE, res |-> "None"]],
     sd |-> [k \in 1..NumShutdowns |-> "idle"]]

\* emit: self.inner.tx.lock().await; late tells whether some shutdown()
\* had returned by then, waited whether the queue was full by then, so
\* that the send had to wait for the writer.
EmitLock(e) ==
    /\ oc.st = "live"
    /\ oc.em[e].pc = "idle"
    /\ oc.calls < MaxEmits
    /\ oc.tx_lock = 0
    /\ oc' = [oc EXCEPT !.tx_lock = e,
                        !.calls = @ + 1,
                        !.em[e].pc = "locked",
                        !.em[e].emits = @ + 1,
                        !.em[e].late = \E k \in 1..NumShutdowns : oc.sd[k] = "returned",
                        !.em[e].waited = oc.tx = "Some" /\ Len(oc.queue) = ChannelCapacity,
                        !.em[e].res = "None"]
    /\ UNCHANGED <<engineVars, rd, pl, ss, hp, lm, cf, ot, dl, hd>>

\* emit: tx.send(...).await completes once the queue has room, the guard
\* being held meanwhile; without a sender emit fails.
EmitSend(e) ==
    /\ oc.st = "live"
    /\ oc.em[e].pc = "locked"
    /\ IF oc.tx = "Some"
       THEN /\ Len(oc.queue) < ChannelCapacity
            /\ oc' = [oc EXCEPT !.queue = Append(@, <<e, oc.em[e].emits>>),
                                !.accepted = Append(@, <<e, oc.em[e].emits>>),
                                !.tx_lock = 0,
                                !.em[e].pc = "idle",
                                !.em[e].res = "Ok"]
       ELSE oc' = [oc EXCEPT !.tx_lock = 0, !.em[e].pc = "idle",
                             !.em[e].res = "Err"]
    /\ UNCHANGED <<engineVars, rd, pl, ss, hp, lm, cf, ot, dl, hd>>

\* rx.blocking_recv() hands the writer the oldest command of the queue.
blocking_recv_newest(queue) ==
    [cmd |-> queue[Len(queue)], rest |-> SubSeq(queue, 1, Len(queue) - 1)]
blocking_recv(queue) == [cmd |-> Head(queue), rest |-> Tail(queue)]

\* The writer receives a command and writes its outcome.
WriterRecv ==
    /\ oc.st = "live"
    /\ oc.writer = "running"
    /\ oc.queue # <<>>
    /\ LET r == blocking_recv(oc.queue) IN
        oc' = [oc EXCEPT !.queue = r.rest, !.written = Append(@, r.cmd)]
    /\ UNCHANGED <<engineVars, rd, pl, ss, hp, lm, cf, ot, dl, hd>>

\* blocking_recv() returns None, the queue being empty and the sender
\* dropped; the writer flushes and ends.
WriterEnd ==
    /\ oc.st = "live"
    /\ oc.writer = "running"
    /\ oc.queue = <<>>
    /\ oc.tx = "None"
    /\ oc' = [oc EXCEPT !.writer = "terminated"]
    /\ UNCHANGED <<engineVars, rd, pl, ss, hp, lm, cf, ot, dl, hd>>

\* shutdown: self.inner.tx.lock().await.take()
ShutdownTakeKept(k) ==
    /\ oc.st = "live"
    /\ oc.sd[k] = "idle"
    /\ oc.tx_lock = 0
    /\ oc' = [oc EXCEPT !.sd[k] = "taken"]
    /\ UNCHANGED <<engineVars, rd, pl, ss, hp, lm, cf, ot, dl, hd>>
ShutdownTake(k) ==
    /\ oc.st = "live"
    /\ oc.sd[k] = "idle"
    /\ oc.tx_lock = 0
    /\ oc' = [oc EXCEPT !.tx = "None", !.sd[k] = "taken"]
    /\ UNCHANGED <<engineVars, rd, pl, ss, hp, lm, cf, ot, dl, hd>>

\* shutdown: self.inner.handle.lock().await.take(); with no handle left
\* shutdown returns, else it goes on to join, the guard of the handle
\* being a temporary of the `if let` that lives to its end.
ShutdownHandle(k) ==
    /\ oc.st = "live"
    /\ oc.sd[k] = "taken"
    /\ oc.handle_lock = 0
    /\ IF oc.handle = "Some"
       THEN oc' = [oc EXCEPT !.handle = "None", !.handle_lock = k,
                             !.sd[k] = "joining"]
       ELSE oc' = [oc EXCEPT !.sd[k] = "returned"]
    /\ UNCHANGED <<engineVars, rd, pl, ss, hp, lm, cf, ot, dl, hd>>

\* handle.await is ready once the writer's closure has returned.
joined_at_once(writer) == TRUE
joined(writer) == writer = "terminated"

\* shutdown: handle.await completes and shutdown returns.
ShutdownJoin(k) ==
    /\ oc.st = "live"
    /\ oc.sd[k] = "joining"
    /\ joined(oc.writer)
    /\ oc' = [oc EXCEPT !.handle_lock = 0, !.sd[k] = "returned"]
    /\ UNCHANGED <<engineVars, rd, pl, ss, hp, lm, cf, ot, dl, hd>>

InitChannel ==
    /\ cfg = [rate |-> 1, concurrency |-> 1]
    /\ EngineInit(0)
    /\ rd = IdleReader
    /\ pl = IdlePipeline
    /\ ss = IdleSession
    /\ hp = IdleHttp
    /\ lm = Unused
    /\ cf = Unused
    /\ ot = Unused
    /\ dl = Unused
    /\ hd = Unused
    /\ oc = ChannelInit

NextChannel ==
    \/ \E e \in 1..NumEmitters : EmitLock(e)
    \/ \E e \in 1..NumEmitters : EmitSend(e)
    \/ WriterRecv
    \/ WriterEnd
    \/ \E k \in 1..NumShutdowns : ShutdownTake(k)
    \/ \E k \in 1..NumShutdowns : ShutdownHandle(k)
    \/ \E k \in 1..NumShutdowns : ShutdownJoin(k)

SpecChannel == InitChannel /\ [][NextChannel]_vars

\* The scheduling the channel runs under: a send whose queue has room
\* completes, the writer's thread runs while it has a command or the end
\* of the channel to see, a shutdown() that was called obtains the sender's
\* mutex (tokio's Mutex serves its waiters in the order of their calls, so
\* emitters cannot overtake it for ever) and then the handle's, and the
\* join completes once the writer has ended.  Nothing obliges emit() to
\* be called.
SpecChannelFair ==
    /\ SpecChannel
    /\ \A e \in 1..NumEmitters : WF_vars(EmitSend(e))
    /\ WF_vars(WriterRecv)
    /\ WF_vars(WriterEnd)
    /\ \A k \in 1..NumShutdowns : SF_vars(ShutdownTake(k))
    /\ \A k \in 1..NumShutdowns : WF_vars(ShutdownHandle(k))
    /\ \A k \in 1..NumShutdowns : WF_vars(ShutdownJoin(k))

\* C24: the writer writes the outcomes in the order in which their sends
\* were accepted into the queue: what is written, followed by what is
\* queued, is what was accepted, in that order.
C24_WrittenInAcceptedOrder ==
    oc.st = "live" => oc.written \o oc.queue = oc.accepted

\* C24: outcomes of two emitters were queued together and both written.
C24_TwoWritten ==
    /\ oc.st = "live"
    /\ Len(oc.written) >= 2
    /\ oc.written[1][1] # oc.written[2][1]

\* C25: when a shutdown() has returned, the writer has written every
\* outcome accepted and has terminated, and an emit() that took the lock
\* after a shutdown() returned has failed and enqueued nothing.
C25_ShutdownJoinsWriter ==
    oc.st = "live" =>
        /\ (\E k \in 1..NumShutdowns : oc.sd[k] = "returned") =>
               /\ oc.writer = "terminated"
               /\ oc.queue = <<>>
               /\ oc.written = oc.accepted
        /\ \A e \in 1..NumEmitters :
               (oc.em[e].late /\ oc.em[e].pc = "idle") =>
                   /\ oc.em[e].res = "Err"
                   /\ \A i \in 1..Len(oc.accepted) :
                          oc.accepted[i] # <<e, oc.em[e].emits>>

\* C25: every shutdown() call returned after an outcome was written, and
\* an emit() called afterwards failed.
C25_ShutDownThenEmit ==
    /\ oc.st = "live"
    /\ \A k \in 1..NumShutdowns : oc.sd[k] = "returned"
    /\ Len(oc.written) >= 1
    /\ \E e \in 1..NumEmitters : oc.em[e].late /\ oc.em[e].res = "Err"

\* C39: every shutdown(), whatever emit() calls are in progress, waiting
\* for the sender's mutex or waiting for room in a full queue, returns in
\* the end, and when the writer has ended every emit() that returned
\* success has had its outcome written, nothing being left in the queue.
C39_ShutdownCompletes ==
    /\ [](oc.writer = "terminated" =>
            /\ oc.queue = <<>>
            /\ oc.written = oc.accepted
            /\ \A e \in 1..NumEmitters :
                   (oc.em[e].pc = "idle" /\ oc.em[e].res = "Ok") =>
                       \E i \in 1..Len(oc.written) :
                           oc.written[i] = <<e, oc.em[e].emits>>)
    /\ <>(\A k \in 1..NumShutdowns : oc.sd[k] = "returned")

\* C39: every shutdown() has returned after an emit() had found the queue
\* full and succeeded once the writer made room.
C39_ReturnedAfterFullQueue ==
    /\ \A k \in 1..NumShutdowns : oc.sd[k] = "returned"
    /\ Len(oc.written) > ChannelCapacity
    /\ \E e \in 1..NumEmitters : oc.em[e].waited /\ oc.em[e].res = "Ok"

-----------------------------------------------------------------------------
(***************************************************************************)
(* One target task: timeout(cfg.overall_timeout, process_target(...))      *)
(* (engine/mod.rs) around the processor of engine/pipeline.rs, which may   *)
(* end with webdriver::fetch_rendered_body.                                *)
(***************************************************************************)

\* The task starts at instant 0; webdriver tells whether config.webdriver
\* is set on an HTTP or HTTPS scan.  last_io is the instant of the latest
\* connect, send or read step made for the target, render the state of
\* the closure given to spawn_blocking.
OverallInit(webdriver) ==
    [st |-> "connect", webdriver |-> webdriver, now |-> 0, start |-> 0,
     last_io |-> 0, render |-> "none", wd_start |-> 0, cut_at |-> 0]

\* The clock advances, unless the overall timeout is due.
OverallTick ==
    /\ ot.st # "idle"
    /\ ot.now < MaxTime
    /\ ~(ot.st \in {"connect", "handler", "webdriver"} /\ ot.now >= ot.start + overall_timeout)
    /\ ot' = [ot EXCEPT !.now = @ + 1]
    /\ UNCHANGED <<engineVars, rd, pl, ss, hp, lm, cf, oc, dl, hd>>

\* connect_tcp: the connection is established.
OverallConnect ==
    /\ ot.st = "connect"
    /\ ot' = [ot EXCEPT !.st = "handler", !.last_io = ot.now]
    /\ UNCHANGED <<engineVars, rd, pl, ss, hp, lm, cf, oc, dl, hd>>

\* process_tcp_stream: the handler sends or reads once more, or returns
\* its result; the processor then fetches the rendered body or returns.
OverallHandler ==
    /\ ot.st = "handler"
    /\ \/ ot' = [ot EXCEPT !.last_io = ot.now]
       \/ ot' = [ot EXCEPT !.last_io = ot.now,
                           !.st = IF ot.webdriver THEN "webdriver" ELSE "done",
                           !.wd_start = ot.now]
    /\ UNCHANGED <<engineVars, rd, pl, ss, hp, lm, cf, oc, dl, hd>>

\* fetch_rendered_body: spawn_blocking(render_body_blocking).
SpawnRender ==
    /\ ot.st = "webdriver"
    /\ ot.render = "none"
    /\ ot' = [ot EXCEPT !.render = "running"]
    /\ UNCHANGED <<engineVars, rd, pl, ss, hp, lm, cf, oc, dl, hd>>

\* render_body_blocking, on its blocking thread: the browser navigates to
\* the target's URL and reads the page, then the closure returns.
RenderStep ==
    /\ ot.st # "idle"
    /\ ot.render = "running"
    /\ \/ ot' = [ot EXCEPT !.last_io = ot.now]
       \/ ot' = [ot EXCEPT !.last_io = ot.now, !.render = "finished"]
    /\ UNCHANGED <<engineVars, rd, pl, ss, hp, lm, cf, oc, dl, hd>>

\* fetch_rendered_body: the join handle is ready, or its timeout of
\* overall_timeout elapses; the processor returns its outcome.
WebdriverReturn ==
    /\ ot.st = "webdriver"
    /\ \/ ot.render = "finished"
       \/ ot.render = "running" /\ ot.now >= ot.wd_start + overall_timeout
    /\ ot' = [ot EXCEPT !.st = "done"]
    /\ UNCHANGED <<engineVars, rd, pl, ss, hp, lm, cf, oc, dl, hd>>

\* timeout(cfg.overall_timeout, ...) elapses: the processor future is
\* dropped.
OverallElapsed ==
    /\ ot.st \in {"connect", "handler", "webdriver"}
    /\ ot.now >= ot.start + overall_timeout
    /\ ot' = [ot EXCEPT !.st = "cut", !.cut_at = ot.now]
    /\ UNCHANGED <<engineVars, rd, pl, ss, hp, lm, cf, oc, dl, hd>>

InitOverall ==
    /\ cfg = [rate |-> 1, concurrency |-> 1]
    /\ EngineInit(0)
    /\ rd = IdleReader
    /\ pl = IdlePipeline
    /\ ss = IdleSession
    /\ hp = IdleHttp
    /\ lm = Unused
    /\ cf = Unused
    /\ oc = Unused
    /\ dl = Unused
    /\ hd = Unused
    /\ \E webdriver \in BOOLEAN : ot = OverallInit(webdriver)

NextOverall ==
    \/ OverallTick
    \/ OverallConnect
    \/ OverallHandler
    \/ SpawnRender
    \/ RenderStep
    \/ WebdriverReturn
    \/ OverallElapsed

SpecOverall == InitOverall /\ [][NextOverall]_vars

\* C26: processing is cut off when overall_timeout has elapsed since the
\* task started, and no connect, send or read step of the target happens
\* after that instant.
C26_NoStepAfterCutOff ==
    ot.st = "cut" =>
        /\ ot.cut_at = ot.start + overall_timeout
        /\ ot.last_io <= ot.cut_at

-----------------------------------------------------------------------------
(***************************************************************************)
(* The reads of one ClientSession inside a target task that the scheduler  *)
(* cuts off at the target's overall deadline: the session that is given a  *)
(* deadline (client/session.rs) and the one that is not                    *)
(* (core/clients/session.rs).  A part is known by whether it is empty and  *)
(* by its reason.                                                          *)
(***************************************************************************)

\* ClientSession::new(cfg, deadline), or ClientSession::new(cfg) when
\* has_deadline is false, in a task whose overall timeout ends at cut_at.
\* wait_from is the instant the pending stream.read began, got whether
\* the pending read has received bytes; waited and allowed are the length
\* of the longest wait ended so far and min(read_timeout, time to the
\* overall deadline) when that wait began.
DeadlineInit(has_deadline, deadline, cut_at, idle_timeout) ==
    [st |-> "open", has_deadline |-> has_deadline, deadline |-> deadline,
     cut_at |-> cut_at, idle_timeout |-> idle_timeout, now |-> 0,
     parts |-> <<>>, out_of_time |-> FALSE, parts_before |-> 0, io |-> FALSE,
     ret |-> "none", idle |-> 0, wait_from |-> 0, got |-> FALSE,
     waited |-> 0, allowed |-> 0]

\* remaining_time(): deadline.checked_duration_since(now), capped by
\* idle_timeout.
remaining_time(deadline, t, idle_timeout) ==
    IF deadline >= t
    THEN [some |-> TRUE,
          dur |-> IF deadline - t <= idle_timeout THEN deadline - t ELSE idle_timeout]
    ELSE [some |-> FALSE, dur |-> 0]

\* read: the match on remaining_time() that sends read to push_timeout.
no_time_left_once_past(r) == ~r.some
no_time_left(r) == ~r.some \/ r.dur = 0

\* deadline_exhausted()
deadline_exhausted(deadline, t) == t >= deadline

\* timeout(cfg.overall_timeout, ...) around the task is due.
overall_never_due(d) == FALSE
overall_due(d) == d.now >= d.cut_at

\* A wait on the stream that began at wait_from ends now: the wait that
\* went furthest beyond its allowance is kept, the longer of two equals.
EndWait(d) ==
    LET w == d.now - d.wait_from
        left == IF d.cut_at >= d.wait_from THEN d.cut_at - d.wait_from ELSE 0
        a == IF left <= d.idle_timeout THEN left ELSE d.idle_timeout
    IN  IF \/ w - a > d.waited - d.allowed
           \/ w - a = d.waited - d.allowed /\ w > d.waited
        THEN [d EXCEPT !.waited = w, !.allowed = a]
        ELSE d

\* The clock advances, unless the pending read's idle timeout or the
\* task's overall timeout is due.
DeadlineTick ==
    /\ dl.st \in {"open", "reading"}
    /\ dl.now < MaxTime
    /\ ~(dl.st = "reading" /\ dl.now >= dl.wait_from + dl.idle)
    /\ ~overall_due(dl)
    /\ dl' = [dl EXCEPT !.now = @ + 1]
    /\ UNCHANGED <<engineVars, rd, pl, ss, hp, lm, cf, oc, ot, hd>>

\* The overall timeout elapses: the task's future is dropped, and with it
\* the session and its pending read.
DeadlineCut ==
    /\ dl.st \in {"open", "reading"}
    /\ overall_due(dl)
    /\ dl' = [(IF dl.st = "reading" THEN EndWait(dl) ELSE dl) EXCEPT !.st = "cut"]
    /\ UNCHANGED <<engineVars, rd, pl, ss, hp, lm, cf, oc, ot, hd>>

\* session.read is called: with a deadline and no time left it pushes a
\* Timeout part and returns true; else the reader starts reading with the
\* idle timeout it is given, read_timeout when there is no deadline.
DeadlineRead ==
    /\ dl.st = "open"
    /\ Len(dl.parts) < MaxParts
    /\ LET r == remaining_time(dl.deadline, dl.now, dl.idle_timeout)
           called == [dl EXCEPT !.out_of_time = dl.has_deadline /\ dl.now >= dl.deadline,
                                !.parts_before = Len(dl.parts),
                                !.io = FALSE, !.ret = "none", !.got = FALSE]
       IN  IF dl.has_deadline /\ no_time_left(r)
           THEN dl' = [called EXCEPT !.parts = Append(@, [empty |-> TRUE,
                                                          reason |-> "Timeout"]),
                                     !.ret = "true"]
           ELSE dl' = [called EXCEPT !.st = "reading", !.io = TRUE,
                                     !.wait_from = dl.now,
                                     !.idle = IF dl.has_deadline THEN r.dur
                                              ELSE dl.idle_timeout]
    /\ UNCHANGED <<engineVars, rd, pl, ss, hp, lm, cf, oc, ot, hd>>

\* The part the reader returned is pushed and read returns: whether the
\* deadline is exhausted, or () without a deadline.
DeadlineReturn(d, empty, reason) ==
    [d EXCEPT !.st = "open",
              !.parts = Append(@, [empty |-> empty, reason |-> reason]),
              !.ret = IF ~d.has_deadline THEN "unit"
                      ELSE IF deadline_exhausted(d.deadline, d.now) THEN "true"
                      ELSE "false"]

\* Bytes arrive within the idle timeout: the reader's loop goes on to the
\* next stream.read, or returns on a delimiter or at the size limit.
DeadlineData ==
    /\ dl.st = "reading"
    /\ dl.now < dl.wait_from + dl.idle
    /\ \/ dl' = [EndWait(dl) EXCEPT !.wait_from = dl.now, !.got = TRUE]
       \/ \E reason \in {"Delimiter", "SizeLimit"} :
            dl' = DeadlineReturn(EndWait(dl), FALSE, reason)
    /\ UNCHANGED <<engineVars, rd, pl, ss, hp, lm, cf, oc, ot, hd>>

\* The peer closes the stream.
DeadlineEof ==
    /\ dl.st = "reading"
    /\ dl.now < dl.wait_from + dl.idle
    /\ dl' = DeadlineReturn(EndWait(dl), ~dl.got, "ConnectionClosed")
    /\ UNCHANGED <<engineVars, rd, pl, ss, hp, lm, cf, oc, ot, hd>>

\* stream.read fails: the reader's error is returned by read, no part is
\* pushed.
DeadlineError ==
    /\ dl.st = "reading"
    /\ dl.now < dl.wait_from + dl.idle
    /\ dl' = [EndWait(dl) EXCEPT !.st = "failed", !.ret = "Err"]
    /\ UNCHANGED <<engineVars, rd, pl, ss, hp, lm, cf, oc, ot, hd>>

\* No byte arrives within the idle timeout.
DeadlineIdle ==
    /\ dl.st = "reading"
    /\ dl.now >= dl.wait_from + dl.idle
    /\ dl' = DeadlineReturn(EndWait(dl), ~dl.got, "Timeout")
    /\ UNCHANGED <<engineVars, rd, pl, ss, hp, lm, cf, oc, ot, hd>>

\* A session of either kind, with any deadline up to the instant at which
\* the task is cut off.
InitDeadline ==
    /\ cfg = [rate |-> 1, concurrency |-> 1]
    /\ EngineInit(0)
    /\ rd = IdleReader
    /\ pl = IdlePipeline
    /\ ss = IdleSession
    /\ hp = IdleHttp
    /\ lm = Unused
    /\ cf = Unused
    /\ oc = Unused
    /\ ot = Unused
    /\ hd = Unused
    /\ \E has_deadline \in BOOLEAN, cut_at \in 0..MaxTime,
          idle_timeout \in 1..TicksPerSecond :
        \E deadline \in 0..cut_at :
         dl = DeadlineInit(has_deadline, deadline, cut_at, idle_timeout)

NextDeadline ==
    \/ DeadlineTick
    \/ DeadlineCut
    \/ DeadlineRead
    \/ DeadlineData
    \/ DeadlineEof
    \/ DeadlineError
    \/ DeadlineIdle

SpecDeadline == InitDeadline /\ [][NextDeadline]_vars

\* C29: when session.read is called with no time remaining before the
\* deadline, it performs no I/O on the stream, appends exactly one empty
\* part with reason Timeout, and returns true.
C29_NoTimeNoIo ==
    (dl.st \in {"open", "cut"} /\ dl.out_of_time) =>
        /\ ~dl.io
        /\ Len(dl.parts) = dl.parts_before + 1
        /\ dl.parts[Len(dl.parts)] = [empty |-> TRUE, reason |-> "Timeout"]
        /\ dl.ret = "true"

\* C29: read was called after the deadline had passed, an earlier read
\* having returned a part with bytes.
C29_CalledPastDeadline ==
    /\ dl.st = "open"
    /\ dl.out_of_time
    /\ dl.now > dl.deadline
    /\ Len(dl.parts) >= 2
    /\ ~dl.parts[1].empty

C32_PermitsReleased ==
    /\ sem = cfg.concurrency - Cardinality(InFlight)
    /\ (\A t \in Targets : ~Processing(t)) => sem = cfg.concurrency

\* C32: run() returned with one permit configured, one task having ended
\* in a panic and the other by the overall timeout.
C32_PanicAndTimeout ==
    /\ pc = "returned"
    /\ cfg.concurrency = 1
    /\ sem = 1
    /\ \E t, u \in Targets : tasks[t].res = "Panic" /\ tasks[u].res = "Elapsed"

\* C40: under the scheduling of SpecFair a run over a finite stream
\* returns: every sleep of the rate limiter ends, every target pulled
\* obtains its concurrency permit and is spawned, every spawned task
\* finishes and is joined, and in the end run() has returned with the
\* stream consumed and every task joined.
C40_RunReturns ==
    /\ (pc = "sleep") ~> (pc = "acquire")
    /\ (pc = "sem") ~> (pc = "jitter")
    /\ \A t \in Targets : Processing(t) ~> (tasks[t].st = "joined")
    /\ <>(/\ pc = "returned"
          /\ stream = 0
          /\ \A t \in Targets : tasks[t].st = (IF t <= pulled THEN "joined" ELSE "none"))

\* C40: run() has returned from a stream of two targets that shared one
\* concurrency permit and one token a second, the first task ended by
\* the overall timeout and the second by an answer, after the clock
\* passed the horizon.
C40_ReturnedAfterTimeout ==
    /\ pc = "returned"
    /\ cfg.rate = 1
    /\ cfg.concurrency = 1
    /\ pulled >= 2
    /\ tasks[1].st = "joined" /\ tasks[1].res = "Elapsed"
    /\ tasks[2].st = "joined" /\ tasks[2].res = "Ok"
    /\ now = MaxTime

-----------------------------------------------------------------------------
(***************************************************************************)
(* Clones of one RateLimiter whose acquire() calls race each other         *)
(* (engine/rate.rs): last_refill is behind a mutex, the permits are a      *)
(* semaphore that try_acquire_owned reaches without the mutex.             *)
(***************************************************************************)

NumAcquirers == 2

\* RateLimiter::new(fill_rate) at instant 0; every caller is about to call
\* acquire().  lock is the holder of the mutex of last_refill, 0 when free.
RaceInit(fill_rate) ==
    [fill_rate |-> fill_rate, now |-> 0, permits |-> fill_rate, last_refill |-> 0,
     lock |-> 0, raced |-> FALSE,
     ac |-> [a \in 1..NumAcquirers |-> [pc |-> "refill", adding |-> 0, wakeAt |-> 0]]]

\* refill: fill_rate.saturating_sub(permits.available_permits())
to_add_whole_rate(fill_rate, available) == fill_rate
to_add(fill_rate, available) ==
    IF fill_rate >= available THEN fill_rate - available ELSE 0

\* refill takes the mutex and reads the clock; within refill_interval of
\* last_refill it returns, else it computes to_add from the permits
\* available at this instant.
RaceRefill(a) ==
    /\ lm.ac[a].pc = "refill"
    /\ lm.lock = 0
    /\ IF lm.now - lm.last_refill >= refill_interval
       THEN lm' = [lm EXCEPT !.lock = a, !.ac[a].pc = "add",
                             !.ac[a].adding = to_add(lm.fill_rate, lm.permits)]
       ELSE lm' = [lm EXCEPT !.ac[a].pc = "try"]
    /\ UNCHANGED <<engineVars, rd, pl, ss, hp, cf, oc, ot, dl, hd>>

\* refill: add_permits(to_add) when to_add > 0, *guard = now with the now
\* read under the mutex, and the guard is dropped.
RaceAdd(a) ==
    /\ lm.ac[a].pc = "add"
    /\ lm' = [lm EXCEPT !.permits = @ + lm.ac[a].adding,
                        !.last_refill = lm.now, !.lock = 0,
                        !.raced = @ \/ lm.permits + lm.ac[a].adding < lm.fill_rate,
                        !.ac[a].pc = "try", !.ac[a].adding = 0]
    /\ UNCHANGED <<engineVars, rd, pl, ss, hp, cf, oc, ot, dl, hd>>

\* acquire: try_acquire_owned and forget; the caller that got a permit
\* returns and calls acquire() again.
RaceTry(a) ==
    /\ lm.ac[a].pc = "try"
    /\ LET r == try_acquire(lm.permits) IN
        lm' = [lm EXCEPT !.permits = r.permits,
                         !.ac[a].pc = IF r.ok THEN "refill" ELSE "wait"]
    /\ UNCHANGED <<engineVars, rd, pl, ss, hp, cf, oc, ot, dl, hd>>

\* acquire: time_until_refill() under the mutex, jitter_delay(), sleep.
RaceSleep(a) ==
    /\ lm.ac[a].pc = "wait"
    /\ lm.lock = 0
    /\ \E j \in jitter_delay :
         lm' = [lm EXCEPT !.ac[a].pc = "sleep",
                          !.ac[a].wakeAt = lm.now + j +
                              time_until_refill(lm.last_refill, lm.now)]
    /\ UNCHANGED <<engineVars, rd, pl, ss, hp, cf, oc, ot, dl, hd>>

\* sleep(wait_for) ends; the loop turns again.
RaceWake(a) ==
    /\ lm.ac[a].pc = "sleep"
    /\ lm.now >= lm.ac[a].wakeAt
    /\ lm' = [lm EXCEPT !.ac[a].pc = "refill", !.ac[a].wakeAt = 0]
    /\ UNCHANGED <<engineVars, rd, pl, ss, hp, cf, oc, ot, dl, hd>>

\* The clock advances, whatever the callers are in the middle of.
RaceTick ==
    /\ lm.now < MaxTime
    /\ lm' = [lm EXCEPT !.now = @ + 1]
    /\ UNCHANGED <<engineVars, rd, pl, ss, hp, cf, oc, ot, dl, hd>>

InitRace ==
    /\ cfg = [rate |-> 1, concurrency |-> 1]
    /\ EngineInit(0)
    /\ rd = IdleReader
    /\ pl = IdlePipeline
    /\ ss = IdleSession
    /\ hp = IdleHttp
    /\ cf = Unused /\ oc = Unused /\ ot = Unused /\ dl = Unused /\ hd = Unused
    /\ \E fill_rate \in 1..MaxRate : lm = RaceInit(fill_rate)

NextRace ==
    \/ \E a \in 1..NumAcquirers : RaceRefill(a)
    \/ \E a \in 1..NumAcquirers : RaceAdd(a)
    \/ \E a \in 1..NumAcquirers : RaceTry(a)
    \/ \E a \in 1..NumAcquirers : RaceSleep(a)
    \/ \E a \in 1..NumAcquirers : RaceWake(a)
    \/ RaceTick

SpecRace == InitRace /\ [][NextRace]_vars

\* C31: at every instant, also with several acquire() calls racing each
\* other and the refill, the number of available permits is at least 0 and
\* at most capacity = fill_rate.
C31_PermitsWithinCapacity == lm.permits >= 0 /\ lm.permits <= lm.fill_rate

\* C31: a refill added its permits after another caller had taken one
\* between the refill's reading of the available permits and its adding.
C31_TakenDuringRefill == lm.raced /\ lm.permits < lm.fill_rate

-----------------------------------------------------------------------------
(***************************************************************************)
(* The VNC handler (clients/stateful/vnc.rs): VncClient::execute against a *)
(* server of any behaviour.  sent lists what the handler wrote.            *)
(***************************************************************************)

MaxTypes == 2

\* security_types.iter().find(|ty| *ty == 1)
\*     .or_else(|| security_types.first()).unwrap_or(1)
chosen_type(security_types) ==
    IF \E i \in 1..Len(security_types) : security_types[i] = 1 THEN 1
    ELSE IF security_types # <<>> THEN security_types[1]
    ELSE 1

\* The version line is read; a line that is not "RFB <major>.<minor>"
\* ends the handshake, else the version is echoed and the security types
\* are read.
VncVersion ==
    /\ hd.pc = "version"
    /\ \/ hd' = [hd EXCEPT !.pc = "done", !.ret = "Ok"]
       \/ \E ge37 \in BOOLEAN :
            hd' = [hd EXCEPT !.pc = "security", !.ge37 = ge37,
                             !.sent = Append(@, "version")]
    /\ UNCHANGED <<engineVars, rd, pl, ss, hp, lm, cf, oc, ot, dl>>

\* From 3.7 on the one-byte count is read, and as many type bytes when it
\* is not 0; before 3.7 one 4-byte type is read.  The server offers the
\* types 1 (None) and 2 (VNC Authentication).
VncSecurityTypes ==
    /\ hd.pc = "security"
    /\ IF hd.ge37
       THEN \E count \in 0..MaxTypes : \E types \in [1..count -> {1, 2}] :
              hd' = [hd EXCEPT !.pc = "choose", !.count = count,
                               !.security_types = types]
       ELSE \E ty \in {1, 2} :
              hd' = [hd EXCEPT !.pc = "choose", !.security_types = <<ty>>]
    /\ UNCHANGED <<engineVars, rd, pl, ss, hp, lm, cf, oc, ot, dl>>

\* The type is chosen and, from 3.7 on, written to the server.
VncChoose ==
    /\ hd.pc = "choose"
    /\ hd' = [hd EXCEPT !.pc = "result",
                        !.chosen = chosen_type(hd.security_types),
                        !.sent = IF hd.ge37 THEN Append(@, "choice") ELSE @]
    /\ UNCHANGED <<engineVars, rd, pl, ss, hp, lm, cf, oc, ot, dl>>

\* The 4-byte result is read; when it is not 0 a length is read, whose
\* failure is ignored, and a message of that length.
VncResult ==
    /\ hd.pc = "result"
    /\ \E status \in {0, 1} :
         \E failure \in IF status = 0 THEN {"none"}
                         ELSE {"unread", "empty", "message"} :
            hd' = [hd EXCEPT !.pc = "init", !.status = status,
                             !.failure = failure]
    /\ UNCHANGED <<engineVars, rd, pl, ss, hp, lm, cf, oc, ot, dl>>

\* ClientInit (shared = 1) is written, the 24-byte header and the name
\* are read, and execute returns the session's result.
VncClientInit ==
    /\ hd.pc = "init"
    /\ \E name_len \in 0..1 :
         hd' = [hd EXCEPT !.pc = "done", !.ret = "Ok", !.name_len = name_len,
                          !.sent = Append(@, "ClientInit")]
    /\ UNCHANGED <<engineVars, rd, pl, ss, hp, lm, cf, oc, ot, dl>>

\* A read or a write fails or exceeds read_timeout: execute returns Err.
VncFail ==
    /\ hd.pc \in {"version", "security", "choose", "result", "init"}
    /\ hd' = [hd EXCEPT !.pc = "done", !.ret = "Err"]
    /\ UNCHANGED <<engineVars, rd, pl, ss, hp, lm, cf, oc, ot, dl>>

\* execute is called on a connected stream.
InitVnc ==
    /\ cfg = [rate |-> 1, concurrency |-> 1]
    /\ EngineInit(0)
    /\ rd = IdleReader
    /\ pl = IdlePipeline
    /\ ss = IdleSession
    /\ hp = IdleHttp
    /\ lm = Unused /\ cf = Unused /\ oc = Unused /\ ot = Unused /\ dl = Unused
    /\ hd = [pc |-> "version", ge37 |-> FALSE, count |-> -1,
             security_types |-> <<>>, chosen |-> 0, status |-> 0,
             failure |-> "none", name_len |-> 0, sent |-> <<>>, ret |-> "none"]

NextVnc ==
    \/ VncVersion
    \/ VncSecurityTypes
    \/ VncChoose
    \/ VncResult
    \/ VncClientInit
    \/ VncFail

SpecVnc == InitVnc /\ [][NextVnc]_vars

\* C33: for protocol >= 3.7, when the server's security-type count is 0,
\* the handler stops: it sends no security-type choice and no ClientInit
\* afterwards.
C33_StopsOnZeroCount ==
    (hd.ge37 /\ hd.count = 0) =>
        \A i \in 1..Len(hd.sent) : hd.sent[i] \notin {"choice", "ClientInit"}

-----------------------------------------------------------------------------
(***************************************************************************)
(* The rpcbind handler (clients/binaries/rpcbind.rs): execute asks for a   *)
(* DUMP with versions 4, 3, 2 and reads each record-marked reply with      *)
(* read_rpc_message.  A message is known by its number of fragments with   *)
(* bytes.                                                                  *)
(***************************************************************************)

MaxFragments == 2

\* The versions execute tries, in order.
versions == <<4, 3, 2>>

\* execute: the DUMP request of the next version is written within
\* connect_timeout, else execute returns Err.
RpcSend ==
    /\ hd.pc = "send"
    /\ \/ hd' = [hd EXCEPT !.pc = "marker", !.fragments = 0, !.failed = FALSE]
       \/ hd' = [hd EXCEPT !.pc = "done", !.ret = "Err"]
    /\ UNCHANGED <<engineVars, rd, pl, ss, hp, lm, cf, oc, ot, dl>>

\* read_rpc_message: the 4-byte marker is read.  The arm Ok(..) takes
\* every result that arrived within read_timeout, a failed read_exact
\* included, whose buffer holds whatever was read before the failure; only
\* an elapsed timeout returns.  Once the peer has closed, every read fails.
\* With a length above 0 a fragment is read next, else the loop breaks on
\* the last-fragment bit or turns again.
RpcMarker ==
    /\ hd.pc = "marker"
    /\ \/ \E ok \in BOOLEAN, closes \in BOOLEAN, last_fragment \in BOOLEAN,
             length \in 0..1 :
            /\ ok => ~hd.closed /\ ~closes
            /\ length > 0 => hd.fragments < MaxFragments
            /\ hd' = [hd EXCEPT !.failed = @ \/ ~ok, !.closed = @ \/ closes,
                                !.last_fragment = last_fragment,
                                !.pc = IF length > 0 THEN "fragment"
                                       ELSE IF last_fragment THEN "reply"
                                       ELSE "marker"]
       \/ /\ ~hd.closed
          /\ hd' = [hd EXCEPT !.pc = "done", !.ret = "Timeout"]
    /\ UNCHANGED <<engineVars, rd, pl, ss, hp, lm, cf, oc, ot, dl>>

\* read_rpc_message: the fragment is read, with the same arms, and
\* appended to the message.
RpcFragment ==
    /\ hd.pc = "fragment"
    /\ \/ \E ok \in BOOLEAN, closes \in BOOLEAN :
            /\ ok => ~hd.closed /\ ~closes
            /\ hd' = [hd EXCEPT !.failed = @ \/ ~ok, !.closed = @ \/ closes,
                                !.fragments = @ + 1,
                                !.pc = IF hd.last_fragment THEN "reply" ELSE "marker"]
       \/ /\ ~hd.closed
          /\ hd' = [hd EXCEPT !.pc = "done", !.ret = "Timeout"]
    /\ UNCHANGED <<engineVars, rd, pl, ss, hp, lm, cf, oc, ot, dl>>

\* execute: the match on rpc_reply_success(response), which is None for a
\* reply too short to parse, as an empty one is: on success execute
\* returns the reply, on a reply without success it goes on to the next
\* version or fails after the last, on None it fails.
RpcReply ==
    /\ hd.pc = "reply"
    /\ \E success \in {"true", "false", "None"} :
         /\ hd.fragments = 0 => success = "None"
         /\ hd' = CASE success = "true" -> [hd EXCEPT !.pc = "done", !.ret = "Ok"]
                   [] success = "None" -> [hd EXCEPT !.pc = "done", !.ret = "Err"]
                   [] OTHER ->
                        IF hd.version < Len(versions)
                        THEN [hd EXCEPT !.pc = "send", !.version = @ + 1]
                        ELSE [hd EXCEPT !.pc = "done", !.ret = "Err"]
    /\ UNCHANGED <<engineVars, rd, pl, ss, hp, lm, cf, oc, ot, dl>>

\* execute is called on a connected stream.
InitRpc ==
    /\ cfg = [rate |-> 1, concurrency |-> 1]
    /\ EngineInit(0)
    /\ rd = IdleReader
    /\ pl = IdlePipeline
    /\ ss = IdleSession
    /\ hp = IdleHttp
    /\ lm = Unused /\ cf = Unused /\ oc = Unused /\ ot = Unused /\ dl = Unused
    /\ hd = [pc |-> "send", version |-> 1, fragments |-> 0,
             last_fragment |-> FALSE, failed |-> FALSE, closed |-> FALSE,
             ret |-> "none"]

NextRpc ==
    \/ RpcSend
    \/ RpcMarker
    \/ RpcFragment
    \/ RpcReply

SpecRpc == InitRpc /\ [][NextRpc]_vars

\* C34: reading an rpcbind reply ends with an I/O error when the server
\* closes the connection or a read fails before the last fragment.
C34_FailedReadEndsInError ==
    hd.failed => hd.pc = "done" /\ hd.ret = "Err"

-----------------------------------------------------------------------------
(***************************************************************************)
(* The FTP handler (clients/line-based/ftp.rs): FtpClient::execute against *)
(* a server of any behaviour.  log lists, in order, the commands the       *)
(* handler sent and the status codes of the replies it read ("none" for a  *)
(* reply without a status code).                                           *)
(***************************************************************************)

\* What status_code can make of a reply.
Replies == {"230", "331", "332", "500", "none"}

\* The number of (user, pass) pairs in `attempts`.
attempts == 4

\* The commands sent after a login.
commands == <<"SYST", "FEAT", "STAT", "PWD", "HELP SITE", "HELP">>

is_login_success(code) == code = "230"

requires_password_always(code) == TRUE
requires_password(code) == code \in {"331", "332"}

\* The greeting is read; as everywhere below but in the last read of a
\* dialogue without login, a failed send or read ends execute with its
\* error.
FtpGreeting ==
    /\ hd.pc = "greeting"
    /\ \/ \E code \in Replies :
            hd' = [hd EXCEPT !.pc = "user", !.greeting = code,
                             !.log = Append(@, code)]
       \/ hd' = [hd EXCEPT !.pc = "done", !.ret = "Err"]
    /\ UNCHANGED <<engineVars, rd, pl, ss, hp, lm, cf, oc, ot, dl>>

\* One turn of the loop over attempts, up to the reply to USER: on 230 the
\* loop breaks, on 331 or 332 PASS follows, else the next attempt.
FtpUser ==
    /\ hd.pc = "user"
    /\ \/ \E code \in Replies :
            LET l == hd.log \o <<"USER", code>> IN
            hd' = IF is_login_success(code)
                  THEN [hd EXCEPT !.log = l, !.logged_in = TRUE, !.pc = "logged_in"]
                  ELSE IF requires_password(code)
                  THEN [hd EXCEPT !.log = l, !.pc = "pass"]
                  ELSE IF hd.attempt < attempts
                  THEN [hd EXCEPT !.log = l, !.attempt = @ + 1]
                  ELSE [hd EXCEPT !.log = l, !.pc = "no_login"]
       \/ hd' = [hd EXCEPT !.log = Append(@, "USER"), !.pc = "done", !.ret = "Err"]
       \/ hd' = [hd EXCEPT !.pc = "done", !.ret = "Err"]
    /\ UNCHANGED <<engineVars, rd, pl, ss, hp, lm, cf, oc, ot, dl>>

\* The rest of the turn: PASS is sent and its reply read; on 230 the loop
\* breaks, else the next attempt.
FtpPass ==
    /\ hd.pc = "pass"
    /\ \/ \E code \in Replies :
            LET l == hd.log \o <<"PASS", code>> IN
            hd' = IF is_login_success(code)
                  THEN [hd EXCEPT !.log = l, !.logged_in = TRUE, !.pc = "logged_in"]
                  ELSE IF hd.attempt < attempts
                  THEN [hd EXCEPT !.log = l, !.attempt = @ + 1, !.pc = "user"]
                  ELSE [hd EXCEPT !.log = l, !.pc = "no_login"]
       \/ hd' = [hd EXCEPT !.log = Append(@, "PASS"), !.pc = "done", !.ret = "Err"]
       \/ hd' = [hd EXCEPT !.pc = "done", !.ret = "Err"]
    /\ UNCHANGED <<engineVars, rd, pl, ss, hp, lm, cf, oc, ot, dl>>

\* Logged in: the next of the commands is sent and one reply read; after
\* the last, execute returns the session's result.
FtpCommand ==
    /\ hd.pc = "logged_in"
    /\ \/ /\ hd.command <= Len(commands)
          /\ \/ \E code \in {"500"} :
                  hd' = [hd EXCEPT !.log = @ \o <<commands[hd.command], code>>,
                                   !.command = @ + 1]
             \/ hd' = [hd EXCEPT !.log = Append(@, commands[hd.command]),
                                   !.pc = "done", !.ret = "Err"]
             \/ hd' = [hd EXCEPT !.pc = "done", !.ret = "Err"]
       \/ /\ hd.command > Len(commands)
          /\ hd' = [hd EXCEPT !.pc = "done", !.ret = "Ok"]
    /\ UNCHANGED <<engineVars, rd, pl, ss, hp, lm, cf, oc, ot, dl>>

\* Not logged in: unless the greeting was a 230, one more read is made,
\* its error dropped; execute returns the session's result.
FtpNoLogin ==
    /\ hd.pc = "no_login"
    /\ IF is_login_success(hd.greeting)
       THEN hd' = [hd EXCEPT !.pc = "done", !.ret = "Ok"]
       ELSE \/ \E code \in {"500", "none"} :
                 hd' = [hd EXCEPT !.pc = "done", !.ret = "Ok",
                                  !.log = Append(@, code)]
            \/ hd' = [hd EXCEPT !.pc = "done", !.ret = "Ok"]
    /\ UNCHANGED <<engineVars, rd, pl, ss, hp, lm, cf, oc, ot, dl>>

\* execute is called on a connected stream.
InitFtp ==
    /\ cfg = [rate |-> 1, concurrency |-> 1]
    /\ EngineInit(0)
    /\ rd = IdleReader
    /\ pl = IdlePipeline
    /\ ss = IdleSession
    /\ hp = IdleHttp
    /\ lm = Unused /\ cf = Unused /\ oc = Unused /\ ot = Unused /\ dl = Unused
    /\ hd = [pc |-> "greeting", greeting |-> "none", attempt |-> 1,
             logged_in |-> FALSE, command |-> 1, log |-> <<>>, ret |-> "none"]

NextFtp ==
    \/ FtpGreeting
    \/ FtpUser
    \/ FtpPass
    \/ FtpCommand
    \/ FtpNoLogin

SpecFtp == InitFtp /\ [][NextFtp]_vars

\* C35: PASS is sent only after a 331 or 332 reply to the preceding USER,
\* at most four credential pairs are tried and attempts stop at the first
\* 230 reply; SYST, FEAT, STAT, PWD, HELP SITE, HELP are sent in that
\* order, each followed by one read, only after a 230 reply, and none of
\* them is sent when no attempt got a 230.
C35_FtpDialogue ==
    LET l == hd.log
        Places(entry) == {i \in 1..Len(l) : l[i] = entry}
        k == IF Places(commands[1]) = {} THEN 0
             ELSE CHOOSE i \in Places(commands[1]) :
                      \A n \in Places(commands[1]) : i <= n
        sent(i) == l[i] \notin Replies
        credential(i) == l[i] \in {"USER", "PASS"}
        command(i) == \E n \in 1..Len(commands) : l[i] = commands[n]
    IN  /\ \A i \in Places("PASS") :
              i >= 4 /\ l[i - 1] \in {"331", "332"} /\ l[i - 2] = "USER"
        /\ Cardinality(Places("USER")) <= 4
        /\ Cardinality(Places("PASS")) <= 4
        /\ \A i \in 3..Len(l) :
              (l[i] = "230" /\ credential(i - 1)) =>
                  \A n \in (i + 1)..Len(l) : ~credential(n)
        /\ \A i \in 1..Len(l) :
              command(i) =>
                  /\ k >= 4
                  /\ l[k - 1] = "230" /\ credential(k - 2)
                  /\ i >= k
                  /\ (i - k) % 2 = 0
                  /\ l[i] = commands[(i - k) \div 2 + 1]
        /\ \A i \in 1..Len(l) :
              (k > 0 /\ i > k /\ (i - k) % 2 = 1) => ~sent(i)
        /\ (hd.ret = "Ok" /\ k > 0) => Len(l) = k + 2 * Len(commands) - 1
        /\ (~\E i \in 3..Len(l) : l[i] = "230" /\ credential(i - 1)) => k = 0

\* C35: the fourth pair logged in with its PASS, and the six commands were
\* sent and answered.
C35_LoggedInAtLast ==
    /\ hd.ret = "Ok"
    /\ hd.attempt = attempts
    /\ hd.logged_in
    /\ Cardinality({i \in 1..Len(hd.log) : hd.log[i] = "PASS"}) = 4
    /\ hd.log[Len(hd.log) - 1] = "HELP"

-----------------------------------------------------------------------------
(***************************************************************************)
(* The Telnet negotiation decoder (client/telnet.rs):                      *)
(* build_negotiation_response applied by handle_negotiation to a payload   *)
(* of any bytes.                                                           *)
(***************************************************************************)

MaxChunks == 4

IAC == 255
DO == 253
DONT == 254
WILL == 251
WONT == 252
SB == 250
SE == 240

\* The inner loop of the SB arm, i being the index (from 0) of the byte
\* looked at: the index after the first IAC SE, or the end of the bytes.
RECURSIVE end_of_subnegotiation(_, _)
end_of_subnegotiation_at_once(bytes, i) == i
end_of_subnegotiation(bytes, i) ==
    IF i >= Len(bytes) THEN i
    ELSE IF bytes[i + 1] = IAC /\ i + 1 < Len(bytes) /\ bytes[i + 2] = SE
         THEN i + 2
    ELSE end_of_subnegotiation(bytes, i + 1)

\* build_negotiation_response(bytes), as its outer loop from index i
\* (from 0) with the response built so far; turns counts the turns of the
\* loop.  The function is the loop from 0 with an empty response.
RECURSIVE build_negotiation_response(_, _, _, _)
build_negotiation_response(bytes, i, response, turns) ==
    LET out == [response |-> response, turns |-> turns]
        cmd == bytes[i + 2]
    IN  IF i >= Len(bytes) THEN out
        ELSE IF bytes[i + 1] # IAC
             THEN build_negotiation_response(bytes, i + 1, response, turns + 1)
        ELSE IF i + 1 >= Len(bytes) THEN out
        ELSE IF cmd = DO
             THEN IF i + 2 >= Len(bytes) THEN out
                  ELSE build_negotiation_response(bytes, i + 3,
                           response \o <<IAC, WONT, bytes[i + 3]>>, turns + 1)
        ELSE IF cmd = WILL
             THEN IF i + 2 >= Len(bytes) THEN out
                  ELSE build_negotiation_response(bytes, i + 3,
                           response \o <<IAC, DONT, bytes[i + 3]>>, turns + 1)
        ELSE IF cmd = SB
             THEN build_negotiation_response(bytes, end_of_subnegotiation(bytes, i + 2),
                                   response, turns + 1)
        ELSE IF cmd \in {DONT, WONT}
             THEN IF i + 2 >= Len(bytes) THEN out
                  ELSE build_negotiation_response(bytes, i + 3, response, turns + 1)
        ELSE build_negotiation_response(bytes, i + 2, response, turns + 1)

\* session.read_with_result brings a payload, here chunk by chunk: any
\* single byte (1 standing for the bytes that are no command), or one of
\* the sequences the decoder knows.
TelnetRead ==
    /\ hd.pc = "read"
    /\ hd.chunks < MaxChunks
    /\ \E chunk \in {<<b>> : b \in {IAC, DO, DONT, WILL, WONT, SB, SE, 1}}
                        \cup {<<IAC, DO, 1>>, <<IAC, WILL, 1>>, <<IAC, SB>>,
                              <<IAC, SE>>} :
         hd' = [hd EXCEPT !.payload = @ \o chunk, !.chunks = @ + 1]
    /\ UNCHANGED <<engineVars, rd, pl, ss, hp, lm, cf, oc, ot, dl>>

\* handle_negotiation(payload): the response is built and, unless empty,
\* sent.
TelnetNegotiate ==
    /\ hd.pc = "read"
    /\ LET r == build_negotiation_response(hd.payload, 0, <<>>, 0) IN
        hd' = [hd EXCEPT !.pc = "negotiated", !.response = r.response,
                         !.turns = r.turns, !.sent = r.response # <<>>]
    /\ UNCHANGED <<engineVars, rd, pl, ss, hp, lm, cf, oc, ot, dl>>

InitTelnet ==
    /\ cfg = [rate |-> 1, concurrency |-> 1]
    /\ EngineInit(0)
    /\ rd = IdleReader
    /\ pl = IdlePipeline
    /\ ss = IdleSession
    /\ hp = IdleHttp
    /\ lm = Unused /\ cf = Unused /\ oc = Unused /\ ot = Unused /\ dl = Unused
    /\ hd = [pc |-> "read", payload |-> <<>>, chunks |-> 0, response |-> <<>>,
             turns |-> 0, sent |-> FALSE]

NextTelnet == TelnetRead \/ TelnetNegotiate

SpecTelnet == InitTelnet /\ [][NextTelnet]_vars

\* C36: for every input the decoder terminates, within as many turns as
\* there are bytes, and returns exactly the concatenation, in input order,
\* of IAC WONT x for each IAC DO x and IAC DONT x for each IAC WILL x found
\* outside subnegotiation blocks; IAC DONT/WONT x produce nothing, bytes
\* from IAC SB up to and including IAC SE are skipped, and any other IAC
\* command skips 2 bytes.
C36_NegotiationResponse ==
    LET Rest(s, n) == SubSeq(s, n + 1, Len(s))
        \* the bytes after the first IAC SE of s, none when there is no IAC SE
        AfterSE(s) ==
            LET ends == {n \in 2..Len(s) : s[n - 1] = IAC /\ s[n] = SE} IN
            IF ends = {} THEN <<>>
            ELSE Rest(s, CHOOSE n \in ends : \A m \in ends : n <= m)
        RECURSIVE Answer(_)
        Answer(s) ==
            IF s = <<>> THEN <<>>
            ELSE IF s[1] # IAC THEN Answer(Rest(s, 1))
            ELSE IF Len(s) = 1 THEN <<>>
            ELSE IF s[2] = DO
                 THEN IF Len(s) = 2 THEN <<>>
                      ELSE <<IAC, WONT, s[3]>> \o Answer(Rest(s, 3))
            ELSE IF s[2] = WILL
                 THEN IF Len(s) = 2 THEN <<>>
                      ELSE <<IAC, DONT, s[3]>> \o Answer(Rest(s, 3))
            ELSE IF s[2] \in {DONT, WONT}
                 THEN IF Len(s) = 2 THEN <<>> ELSE Answer(Rest(s, 3))
            ELSE IF s[2] = SB THEN Answer(AfterSE(Rest(s, 2)))
            ELSE Answer(Rest(s, 2))
    IN  hd.pc = "negotiated" =>
            /\ hd.response = Answer(hd.payload)
            /\ hd.turns <= Len(hd.payload)

\* C36: a DO inside a subnegotiation block went unanswered and the WILL
\* after the block was answered.
C36_AnsweredAfterBlock ==
    /\ hd.pc = "negotiated"
    /\ hd.payload = <<IAC, SB, IAC, DO, 1, IAC, SE, IAC, WILL, 1>>
    /\ hd.response = <<IAC, DONT, 1>>

=============================================================================
